---- MODULE Spec2Model ----
(***************************************************************************)
(* State-machine model of the VNC protection platform's response engine    *)
(* (prevention/firewall_manager.py), of the threat records written by the  *)
(* two evaluators (detection/traffic_analyzer.py, anomaly_detector.py), of *)
(* the periodic cleanup task (main.py), of the session table kept by the   *)
(* monitor (monitoring/vnc_monitor.py) and the simulator                   *)
(* (simulation/attack_simulator.py), of the rule-based risk score and the  *)
(* four checks behind it, of the ML ensemble of detect_anomaly, and of the *)
(* three periodic tasks that main.py starts and stops.                     *)
(*                                                                         *)
(* Conventions.  Time is counted in minutes.  Python's None is the integer *)
(* None == -1 wherever the code holds an Optional[int] or an optional      *)
(* datetime.  An address string is the sequence of its dotted fields.      *)
(* Reasons and descriptions are sequences of string tokens.  Confidences   *)
(* and scores of the ML ensemble are in thousandths.  Risk scores are      *)
(* whole points of the 0-100 scale.  The monitor stamps a row and a live   *)
(* map entry with the ordinal of the poll that wrote them.                 *)
(***************************************************************************)
EXTENDS Integers, Sequences, FiniteSets, TLC

VARIABLES
    platform,           \* FirewallManager.platform
    now,                \* the wall clock, minutes
    blocked_ips,        \* FirewallManager.blocked_ips
    temporary_blocks,   \* FirewallManager.temporary_blocks: ip -> expiry
    firewall_rules,     \* table firewall_rules, in insertion (id) order
    audit_logs,         \* table audit_logs, in insertion order
    threat_logs,        \* table threat_logs, in insertion (id) order
    threat_objects,     \* the ThreatLog instance a caller holds of each row
    db_failures,        \* persistence writes that have failed so far
    requests,           \* block, unblock and auto-block calls made so far
    last,               \* the most recent public call and its result
    vnc_sessions,       \* table vnc_sessions, in insertion (id) order
    active_sessions,    \* VNCMonitor.active_sessions: key -> session info
    polls,              \* polls of the live connections made so far
    evaluations,        \* rule-based evaluations made so far
    last_poll,          \* the keys of the snapshot the most recent poll read
    last_eval,          \* the most recent rule-based evaluation
    baseline_metrics,   \* TrafficAnalyzer.baseline_metrics
    baseline_history,   \* the samples baseline_metrics was last computed from
    last_check,         \* the most recent run of the four rule-based checks
    is_trained,         \* AnomalyDetector.is_trained
    last_detection,     \* the result of the most recent detect_anomaly
    running,            \* VNCProtectionPlatform.running
    monitoring_active,  \* VNCMonitor.monitoring_active
    tasks,              \* where each periodic task stands
    last_cycle          \* what the most recent re-analysis iteration did

vars == <<platform, now, blocked_ips, temporary_blocks, firewall_rules,
          audit_logs, threat_logs, threat_objects, db_failures, requests,
          last, vnc_sessions, active_sessions, polls, evaluations,
          last_poll, last_eval, baseline_metrics, baseline_history, last_check,
          is_trained,
          last_detection, running, monitoring_active, tasks, last_cycle>>

fwvars == <<blocked_ips, temporary_blocks, firewall_rules, audit_logs>>

threatvars == <<threat_logs, threat_objects>>

sessvars == <<vnc_sessions, active_sessions, polls, evaluations, last_poll,
              last_eval>>

detvars == <<baseline_metrics, baseline_history, last_check, is_trained,
             last_detection>>

schedvars == <<running, monitoring_active, tasks, last_cycle>>

----------------------------------------------------------------------------
(* Bounds of the model *)

MaxTicks == 1
MaxRequests == 2
MaxDbFailures == 1
MaxThreats == 1
MaxSessionSteps == 3
MaxSweepThreats == 4

----------------------------------------------------------------------------
(* Values *)

None == -1

Truthy(x) == x # None /\ x # 0

ExternalIps == { <<8, 8, 8, 8>>, <<1, 1, 1, 1>> }

InternalIps == { <<192, 168, 1, 5>>, <<127, 0, 0, 1>>, <<169, 254, 1, 1>> }

InvalidIps == { <<256, 1, 1, 1>> }

IpInputs == ExternalIps \cup InternalIps \cup InvalidIps

ManualBlock == <<"Manual block">>

RepeatOffender == <<"Repeat offender">>

\* the (duration_minutes, reason) pairs that block_ip is called with
BlockArgs == { <<None, ManualBlock>>, <<0, ManualBlock>>, <<60, RepeatOffender>> }

\* the clock is observed every TickMinutes
TickMinutes == 60

ManualUnblock == <<"Manual unblock">>

Platforms == { "linux", "freebsd" }

----------------------------------------------------------------------------
(* ipaddress.ip_address and the three address classes *)

ValidIp(ip) == Len(ip) = 4 /\ \A i \in 1..4 : ip[i] \in 0..255

\* IPv4Address.is_private: the special-purpose blocks that are not global,
\* of which 127/8 and 169.254/16 are also loopback and link-local
is_private(ip) ==
    \/ ip[1] \in {0, 10, 127}
    \/ ip[1] = 169 /\ ip[2] = 254
    \/ ip[1] = 172 /\ ip[2] \in 16..31
    \/ ip[1] = 192 /\ ip[2] = 168
    \/ ip[1] = 192 /\ ip[2] = 0 /\ ip[3] \in {0, 2}
    \/ ip[1] = 198 /\ ip[2] \in 18..19
    \/ ip[1] = 198 /\ ip[2] = 51 /\ ip[3] = 100
    \/ ip[1] = 203 /\ ip[2] = 0 /\ ip[3] = 113
    \/ ip[1] >= 240

is_loopback(ip) == ip[1] = 127

is_link_local(ip) == ip[1] = 169 /\ ip[2] = 254

\* a variant that forgets the private ranges
_is_internal_ip_NoPrivate(ip) ==
    IF ValidIp(ip) THEN is_loopback(ip) \/ is_link_local(ip) ELSE FALSE

_is_internal_ip(ip) ==
    IF ValidIp(ip) THEN is_private(ip) \/ is_loopback(ip) \/ is_link_local(ip)
    ELSE FALSE

firewall_cmd(p) ==
    IF p = "windows" THEN "netsh"
    ELSE IF p \in {"linux", "darwin"} THEN "iptables"
    ELSE "None"

----------------------------------------------------------------------------
(* The persistence layer *)

\* db.query(FirewallRule).filter_by(source_ip=ip, is_active=True).first():
\* the index of the row, 0 when there is none
ActiveRuleIndex(rules, ip) ==
    LET hits == { i \in 1..Len(rules) :
                    rules[i].source_ip = ip /\ rules[i].is_active }
    IN IF hits = {} THEN 0 ELSE CHOOSE i \in hits : \A j \in hits : i <= j

\* commitOk = FALSE is a query or a commit that raises, so that the except
\* branch rolls the transaction back: the database is unreachable or locked,
\* or (on insertion) the unique rule_name
\* auto_block_<ip>_<second> is already taken by a row created for the same
\* address within the same second
\* a variant that inserts a row without looking for an active one
_store_firewall_rule_AlwaysInserts(rules, ip, action, reason, duration_minutes, t, commitOk) ==
    IF ~commitOk THEN rules
    ELSE Append(rules, [ source_ip   |-> ip,
                         action      |-> action,
                         is_active   |-> TRUE,
                         description |-> <<reason>>,
                         expires_at  |-> IF Truthy(duration_minutes)
                                         THEN t + duration_minutes ELSE None ])

_store_firewall_rule(rules, ip, action, reason, duration_minutes, t, commitOk) ==
    LET idx == ActiveRuleIndex(rules, ip)
        fresh == [ source_ip   |-> ip,
                   action      |-> action,
                   is_active   |-> TRUE,
                   description |-> <<reason>>,
                   expires_at  |-> IF Truthy(duration_minutes)
                                   THEN t + duration_minutes ELSE None ]
    IN IF ~commitOk THEN rules
       ELSE IF idx # 0
       THEN [rules EXCEPT ![idx] =
                [@ EXCEPT !.action = action,
                          !.description = <<reason>>,
                          !.expires_at = IF Truthy(duration_minutes)
                                         THEN t + duration_minutes ELSE @]]
       ELSE Append(rules, fresh)

_update_firewall_rule(rules, ip, status, reason, commitOk) ==
    LET idx == ActiveRuleIndex(rules, ip)
    IN IF commitOk /\ idx # 0
       THEN [rules EXCEPT ![idx] =
                [@ EXCEPT !.is_active = (status = "active"),
                          !.description = Append(@, reason)]]
       ELSE rules

_log_audit_event(audit, event_type, target, commitOk) ==
    IF commitOk
    THEN Append(audit, [event_type |-> event_type, target |-> target])
    ELSE audit

----------------------------------------------------------------------------
(* The enforcement primitive: simulated, it reports success unless an      *)
(* exception is raised inside it, which it catches to return False          *)

_apply_firewall_block(p, ip, raised) == ~raised

_remove_firewall_block(p, ip, raised) == ~raised

----------------------------------------------------------------------------
(* block_ip and unblock_ip as functions of the manager's state.  A state   *)
(* st is a record of the four collections plus the counters of the         *)
(* enforcement calls made and of the persistence writes that failed; the   *)
(* result is the state and the returned dict.                              *)

\* the writes, among those of one call, that fail
Failures(flags) == Cardinality({ i \in DOMAIN flags : ~flags[i] })

FwState ==
    [ blocked |-> blocked_ips, temp |-> temporary_blocks,
      rules |-> firewall_rules, audit |-> audit_logs,
      applies |-> 0, removes |-> 0, warned |-> 0, failed |-> 0 ]

SetExpiry(temp, ip, e) ==
    [x \in (DOMAIN temp) \cup {ip} |-> IF x = ip THEN e ELSE temp[x]]

\* a variant that leaves the entry where it is
Pop_KeepsEntry(temp, ip) == temp

Pop(temp, ip) == [x \in (DOMAIN temp) \ {ip} |-> temp[x]]

\* a variant that gives up, with nothing recorded, when the enforcement fails
block_ip_AbortsOnEnforcementFailure(st, p, ip, duration_minutes, reason, t, enforceOk, storeOk, auditOk) ==
    IF ~ValidIp(ip)
    THEN [st |-> st, success |-> FALSE, error |-> "Invalid IP address format"]
    ELSE IF _is_internal_ip(ip)
    THEN [st |-> st, success |-> FALSE,
          error |-> "Cannot block internal IP addresses"]
    ELSE IF firewall_cmd(p) # "None" /\ ~_apply_firewall_block(p, ip, ~enforceOk)
    THEN [st |-> [st EXCEPT !.applies = @ + 1, !.warned = @ + 1],
          success |-> FALSE, error |-> "Failed to apply firewall rule"]
    ELSE [st |-> [ blocked |-> st.blocked \cup {ip},
                   temp    |-> IF Truthy(duration_minutes)
                               THEN SetExpiry(st.temp, ip, t + duration_minutes)
                               ELSE st.temp,
                   rules   |-> _store_firewall_rule(st.rules, ip, "deny", reason,
                                                    duration_minutes, t, storeOk),
                   audit   |-> _log_audit_event(st.audit, "ip_blocked", ip, auditOk),
                   applies |-> IF firewall_cmd(p) # "None"
                               THEN st.applies + 1 ELSE st.applies,
                   removes |-> st.removes,
                   warned  |-> st.warned,
                   failed  |-> st.failed + Failures(<<storeOk, auditOk>>) ],
          success |-> TRUE, error |-> "" ]

block_ip(st, p, ip, duration_minutes, reason, t, enforceOk, storeOk, auditOk) ==
    IF ~ValidIp(ip)
    THEN [st |-> st, success |-> FALSE, error |-> "Invalid IP address format"]
    ELSE IF _is_internal_ip(ip)
    THEN [st |-> st, success |-> FALSE,
          error |-> "Cannot block internal IP addresses"]
    ELSE [st |-> [ blocked |-> st.blocked \cup {ip},
                   temp    |-> IF Truthy(duration_minutes)
                               THEN SetExpiry(st.temp, ip, t + duration_minutes)
                               ELSE st.temp,
                   rules   |-> _store_firewall_rule(st.rules, ip, "deny", reason,
                                                    duration_minutes, t, storeOk),
                   audit   |-> _log_audit_event(st.audit, "ip_blocked", ip, auditOk),
                   applies |-> IF firewall_cmd(p) # "None"
                               THEN st.applies + 1 ELSE st.applies,
                   removes |-> st.removes,
                   warned  |-> IF /\ firewall_cmd(p) # "None"
                                  /\ ~_apply_firewall_block(p, ip, ~enforceOk)
                               THEN st.warned + 1 ELSE st.warned,
                   failed  |-> st.failed + Failures(<<storeOk, auditOk>>) ],
          success |-> TRUE, error |-> "" ]

\* a variant that does not check that the address is blocked
unblock_ip_Unchecked(st, p, ip, reason, enforceOk, updateOk, auditOk) ==
    IF ~ValidIp(ip)
    THEN [st |-> st, success |-> FALSE, error |-> "Invalid IP address format"]
    ELSE [st |-> [ blocked |-> st.blocked \ {ip},
                   temp    |-> Pop(st.temp, ip),
                   rules   |-> _update_firewall_rule(st.rules, ip, "inactive",
                                                     reason, updateOk),
                   audit   |-> _log_audit_event(st.audit, "ip_unblocked", ip, auditOk),
                   applies |-> st.applies,
                   removes |-> IF firewall_cmd(p) # "None"
                               THEN st.removes + 1 ELSE st.removes,
                   warned  |-> IF /\ firewall_cmd(p) # "None"
                                  /\ ~_remove_firewall_block(p, ip, ~enforceOk)
                               THEN st.warned + 1 ELSE st.warned,
                   failed  |-> st.failed + Failures(<<updateOk, auditOk>>) ],
          success |-> TRUE, error |-> "" ]

\* a variant that leaves the pending expiry in temporary_blocks
unblock_ip_KeepsExpiry(st, p, ip, reason, enforceOk, updateOk, auditOk) ==
    IF ~ValidIp(ip)
    THEN [st |-> st, success |-> FALSE, error |-> "Invalid IP address format"]
    ELSE IF ip \notin st.blocked
    THEN [st |-> st, success |-> FALSE, error |-> "IP is not currently blocked"]
    ELSE [st |-> [ blocked |-> st.blocked \ {ip},
                   temp    |-> st.temp,
                   rules   |-> _update_firewall_rule(st.rules, ip, "inactive",
                                                     reason, updateOk),
                   audit   |-> _log_audit_event(st.audit, "ip_unblocked", ip, auditOk),
                   applies |-> st.applies,
                   removes |-> IF firewall_cmd(p) # "None"
                               THEN st.removes + 1 ELSE st.removes,
                   warned  |-> IF /\ firewall_cmd(p) # "None"
                                  /\ ~_remove_firewall_block(p, ip, ~enforceOk)
                               THEN st.warned + 1 ELSE st.warned,
                   failed  |-> st.failed + Failures(<<updateOk, auditOk>>) ],
          success |-> TRUE, error |-> "" ]

unblock_ip(st, p, ip, reason, enforceOk, updateOk, auditOk) ==
    IF ~ValidIp(ip)
    THEN [st |-> st, success |-> FALSE, error |-> "Invalid IP address format"]
    ELSE IF ip \notin st.blocked
    THEN [st |-> st, success |-> FALSE, error |-> "IP is not currently blocked"]
    ELSE [st |-> [ blocked |-> st.blocked \ {ip},
                   temp    |-> Pop(st.temp, ip),
                   rules   |-> _update_firewall_rule(st.rules, ip, "inactive",
                                                     reason, updateOk),
                   audit   |-> _log_audit_event(st.audit, "ip_unblocked", ip, auditOk),
                   applies |-> st.applies,
                   removes |-> IF firewall_cmd(p) # "None"
                               THEN st.removes + 1 ELSE st.removes,
                   warned  |-> IF /\ firewall_cmd(p) # "None"
                                  /\ ~_remove_firewall_block(p, ip, ~enforceOk)
                               THEN st.warned + 1 ELSE st.warned,
                   failed  |-> st.failed + Failures(<<updateOk, auditOk>>) ],
          success |-> TRUE, error |-> "" ]

\* the loop of cleanup_expired_blocks over expired_ips, in the order given;
\* enfFail are the addresses whose enforcement removal fails, updFail and
\* audFail those whose persistence writes fail.
\* r is the result of the k-th unblock_ip and rest that of the iterations
\* after it; the singleton sets hold each as a value computed once.
RECURSIVE SweepFrom(_, _, _, _, _, _, _)
SweepFrom(st, p, order, k, enfFail, updFail, audFail) ==
    IF k > Len(order) THEN [st |-> st, removed_count |-> 0]
    ELSE CHOOSE result \in
            { [st |-> rest.st,
               removed_count |-> rest.removed_count
                                   + (IF r.success THEN 1 ELSE 0)] :
                <<r, rest>> \in
                    { <<u, SweepFrom(u.st, p, order, k + 1, enfFail, updFail,
                                       audFail)>> :
                        u \in { unblock_ip(st, p, order[k],
                                           <<"Temporary block expired">>,
                                           order[k] \notin enfFail,
                                           order[k] \notin updFail,
                                           order[k] \notin audFail) } } } : TRUE

\* a variant that compares expiry < current_time
ExpiredIps_Strict(temp, t) == { ip \in DOMAIN temp : temp[ip] < t }

\* a variant that takes entries up to an hour before their expiry
ExpiredIps_Early(temp, t) == { ip \in DOMAIN temp : temp[ip] <= t + 60 }

ExpiredIps(temp, t) == { ip \in DOMAIN temp : temp[ip] <= t }

Orders(S) ==
    { f \in [1..Cardinality(S) -> S] :
        \A i, j \in 1..Cardinality(S) : i # j => f[i] # f[j] }

----------------------------------------------------------------------------
(* Threat records and the evaluators that write them *)

Severities == { "low", "medium", "high", "critical" }

\* the client addresses of the sessions that are evaluated
ThreatSources == { <<8, 8, 8, 8>>, <<192, 168, 1, 5>> }

\* risk scores handed to the rule-based threat logger, on the 0-100 scale
RiskScores == { 60, 75, 90 }

\* (prediction, decision score) of the outlier detector, in thousandths:
\* the prediction is -1 exactly when the score is negative
IsolationOutputs == { <<-1, -200>>, <<1, 0>>, <<1, 200>> }

\* None when the classifier is absent, else (label, class probabilities)
\* in thousandths: the label is the class of the largest probability
ForestOutputs == { <<None, <<>>>>, <<0, <<900, 100>>>>, <<1, <<400, 600>>>>,
                   <<1, <<0, 1000>>>> }

\* the duration_minutes argument auto_block_threat_ip is called with
DurationArgs == { 60, 15 }

Abs(x) == IF x < 0 THEN 0 - x ELSE x

Min(a, b) == IF a < b THEN a ELSE b

Max(a, b) == IF a > b THEN a ELSE b

MaxOf(seq) == CHOOSE m \in { seq[i] : i \in DOMAIN seq } :
                  \A i \in DOMAIN seq : seq[i] <= m

\* a variant that lets the caller's argument override the table
severity_durations_Arg(severity, default) == default

\* the table severity_durations of auto_block_threat_ip, with its default
severity_durations(severity, default) ==
    CASE severity = "low"      -> 30
      [] severity = "medium"   -> 60
      [] severity = "high"     -> 240
      [] severity = "critical" -> 1440
      [] OTHER                 -> default

\* a variant that does not halve the normalised score
_calculate_confidence_Unhalved(isolation_score, rf_probability) ==
    LET isolation_confidence ==
            Max(0, Min(1000, 1000 - Abs(isolation_score)))
    IN IF rf_probability # <<>>
       THEN (isolation_confidence + MaxOf(rf_probability)) \div 2
       ELSE isolation_confidence

\* a variant that does not clamp the normalised score
_calculate_confidence_Unclamped(isolation_score, rf_probability) ==
    LET isolation_confidence == (1000 - Abs(isolation_score)) \div 2
    IN IF rf_probability # << >>
       THEN (isolation_confidence + MaxOf(rf_probability)) \div 2
       ELSE isolation_confidence

\* thousandths; rf_probability is <<>> when the classifier is absent
_calculate_confidence(isolation_score, rf_probability) ==
    LET isolation_confidence ==
            Max(0, Min(1000, (1000 - Abs(isolation_score)) \div 2))
    IN IF rf_probability # <<>>
       THEN (isolation_confidence + MaxOf(rf_probability)) \div 2
       ELSE isolation_confidence

ThreatRow(threat_type, severity, source_ip, method, confidence) ==
    [ threat_type |-> threat_type, severity |-> severity,
      source_ip |-> source_ip, detection_method |-> method,
      confidence |-> confidence, action_taken |-> <<"logged">>,
      blocked_automatically |-> FALSE ]

\* db.add(threat); db.commit(): the row is written unless the commit fails,
\* and the caller of the response engine later holds an instance of it
PersistThreat(row, commitOk) ==
    /\ db_failures + (IF commitOk THEN 0 ELSE 1) <= MaxDbFailures
    /\ db_failures' = db_failures + (IF commitOk THEN 0 ELSE 1)
    /\ IF commitOk
       THEN /\ Len(threat_logs) < MaxThreats
            /\ threat_logs' = Append(threat_logs, row)
            /\ threat_objects' = Append(threat_objects, row)
       ELSE UNCHANGED threatvars

----------------------------------------------------------------------------
(* The ensemble of detect_anomaly, scores and probabilities in thousandths *)

\* values of isolation_forest.decision_function, inside and outside the
\* range -1 to 1 that the normalisation expects
DecisionScores == { -2000, -200, -1, 0, 1000, 1500 }

\* isolation_forest.predict: an outlier is a sample of negative score
isolation_forest_predict(score) == IF score < 0 THEN -1 ELSE 1

\* values of random_forest.predict_proba over the classes (0, 1)
ProbabilityVectors ==
    { <<1000, 0>>, <<900, 100>>, <<500, 500>>, <<400, 600>>, <<0, 1000>> }

\* random_forest.predict: the class of the largest probability
random_forest_predict(probability) ==
    IF probability[2] > probability[1] THEN 1 ELSE 0

\* (rf_prediction, rf_probability): None and no vector when random_forest
\* is None, the classifier never having been given two classes
ClassifierOutputs ==
    { <<None, << >>>> }
    \cup { <<random_forest_predict(p), p>> : p \in ProbabilityVectors }

\* a variant that wants both models to agree
is_anomaly_Both(isolation_prediction, rf_prediction) ==
    /\ isolation_prediction = -1
    /\ IF rf_prediction # None THEN rf_prediction = 1 ELSE FALSE

\* the combined verdict of detect_anomaly
is_anomaly(isolation_prediction, rf_prediction) ==
    \/ isolation_prediction = -1
    \/ IF rf_prediction # None THEN rf_prediction = 1 ELSE FALSE

\* the ThreatLog that _log_ml_threat builds of a detection result
_log_ml_threat(session, detection_result) ==
    ThreatRow("ml_anomaly_detection",
              IF detection_result.confidence > 900 THEN "high" ELSE "medium",
              session.client_ip, "machine_learning",
              detection_result.confidence)

----------------------------------------------------------------------------
(* Sessions: the monitor that tracks them, the simulator that fabricates   *)
(* them and the rule-based evaluation of their risk                        *)

vnc_ports == 5900..5905

\* connections of psutil.net_connections: a client of the local server
\* whose address is on both suspicious lists, and a local client of an
\* outside server
LiveConnections ==
    << [ local_ip |-> <<192, 168, 1, 5>>, local_port |-> 5900,
         remote_ip |-> <<203, 0, 113, 5>>, remote_port |-> 50000 ],
       [ local_ip |-> <<172, 17, 0, 2>>, local_port |-> 50001,
         remote_ip |-> <<192, 168, 1, 5>>, remote_port |-> 5901 ] >>

\* what _get_vnc_connections returns: none, the first or both of them
Snapshots ==
    { SubSeq(LiveConnections, 1, n) : n \in 0..Len(LiveConnections) }

\* the sum random.uniform(0, 20) adds to an initial score
JitterInputs == { 0, 20 }

\* the scores random.uniform(70, 95) gives a fabricated session
FakeRiskScores == { 70, 95 }

\* the addresses the simulator is run against
FakeClientIps == { <<8, 8, 8, 8>> }

\* the risk_factors list analyze_session builds, in the order of its checks
RiskFactorInputs ==
    { << >>,
      <<"unusual_duration">>,
      <<"excessive_data_transfer", "unusual_duration", "screenshot_abuse",
        "clipboard_abuse">> }

\* the f-string key of a connection: injective on the four fields
conn_key(conn) ==
    <<conn.local_ip, conn.local_port, conn.remote_ip, conn.remote_port>>

KeysOf(snapshot) == { conn_key(snapshot[i]) : i \in DOMAIN snapshot }

\* VNCMonitor._is_internal_ip: the prefixes 192.168., 10., 172.16. to
\* 172.31. and 127.
VNCMonitor_is_internal_ip(ip) ==
    \/ ip[1] = 192 /\ ip[2] = 168
    \/ ip[1] = 10
    \/ ip[1] = 172 /\ ip[2] \in 16..31
    \/ ip[1] = 127

VNCMonitor_is_suspicious_ip(ip) ==
    ip \in { <<203, 0, 113, 5>>, <<198, 51, 100, 10>>, <<192, 0, 2, 50>>,
             <<185, 220, 101, 5>>, <<185, 220, 102, 8>> }

_calculate_initial_risk_score(client_ip, jitter) ==
    Min((IF VNCMonitor_is_internal_ip(client_ip) THEN 10 ELSE 40)
        + (IF VNCMonitor_is_suspicious_ip(client_ip) THEN 50 ELSE 0)
        + jitter, 100)

\* the VNCSession the monitor builds of a connection: the side whose port
\* is a VNC port is the server, the local side first
MonitorSession(conn_info, jitter) ==
    LET local_is_server == conn_info.local_port \in vnc_ports
        client_ip == IF local_is_server THEN conn_info.remote_ip
                     ELSE conn_info.local_ip
    IN [ client_ip |-> client_ip,
         server_ip |-> IF local_is_server THEN conn_info.local_ip
                       ELSE conn_info.remote_ip,
         client_port |-> IF local_is_server THEN conn_info.remote_port
                         ELSE conn_info.local_port,
         server_port |-> IF local_is_server THEN conn_info.local_port
                         ELSE conn_info.remote_port,
         end_time |-> None,
         status |-> "active",
         risk_score |-> _calculate_initial_risk_score(client_ip, jitter) ]

\* the outcomes of db.add, db.commit, db.refresh: all succeed, the commit
\* raises (no row), or the refresh raises after the commit wrote the row
CreateOutcomes == { "ok", "commit_raises", "refresh_raises" }

\* a variant that reopens the closed row of the same connection, if any
_create_session_Reopens(table, conn_info, jitter, outcome) ==
    LET session == MonitorSession(conn_info, jitter)
        same == { i \in DOMAIN table :
                    /\ table[i].client_ip = session.client_ip
                    /\ table[i].client_port = session.client_port
                    /\ table[i].server_ip = session.server_ip
                    /\ table[i].server_port = session.server_port }
    IN IF same # {} /\ outcome = "ok"
       THEN LET i == CHOOSE x \in same : TRUE
            IN [ table |-> [table EXCEPT ![i].status = "active",
                                         ![i].end_time = None],
                 id |-> i ]
       ELSE CASE outcome = "ok" ->
                   [ table |-> Append(table, session), id |-> Len(table) + 1 ]
              [] outcome = "refresh_raises" ->
                   [ table |-> Append(table, session), id |-> None ]
              [] OTHER ->
                   [ table |-> table, id |-> None ]

\* _create_session: the table after it and the id it returns, None when
\* it caught an exception
_create_session(table, conn_info, jitter, outcome) ==
    LET session == MonitorSession(conn_info, jitter)
    IN CASE outcome = "ok" ->
              [ table |-> Append(table, session), id |-> Len(table) + 1 ]
         [] outcome = "refresh_raises" ->
              [ table |-> Append(table, session), id |-> None ]
         [] OTHER ->
              [ table |-> table, id |-> None ]

\* the monitor's state: the table, the live map, the writes that failed
MonitorState ==
    [ table |-> vnc_sessions, active |-> active_sessions, failed |-> 0 ]

\* a variant that marks the row terminated and leaves its end time unset
_close_session_NoEndTime(st, conn_key_, t, commitOk) ==
    IF conn_key_ \in DOMAIN st.active
    THEN LET session_id == st.active[conn_key_].session_id
             found == session_id \in DOMAIN st.table
         IN [ table |-> IF found /\ commitOk
                        THEN [st.table EXCEPT
                                ![session_id].status = "terminated"]
                        ELSE st.table,
              active |-> Pop(st.active, conn_key_),
              failed |-> st.failed
                         + (IF found /\ ~commitOk THEN 1 ELSE 0) ]
    ELSE st

\* _close_session: the row, when it is found, gets its end time and the
\* status terminated in one commit; the key leaves the live map whether
\* or not the row was found and whether or not the commit succeeded
_close_session(st, conn_key_, t, commitOk) ==
    IF conn_key_ \in DOMAIN st.active
    THEN LET session_id == st.active[conn_key_].session_id
             found == session_id \in DOMAIN st.table
         IN [ table |-> IF found /\ commitOk
                        THEN [st.table EXCEPT
                                ![session_id].end_time = t,
                                ![session_id].status = "terminated"]
                        ELSE st.table,
              active |-> Pop(st.active, conn_key_),
              failed |-> st.failed
                         + (IF found /\ ~commitOk THEN 1 ELSE 0) ]
    ELSE st

\* the first loop of check_active_connections, from connection k on
RECURSIVE ObserveFrom(_, _, _, _, _, _)
ObserveFrom(st, snapshot, k, t, jitter, outcome) ==
    IF k > Len(snapshot) THEN st
    ELSE
      LET conn == snapshot[k]
          key == conn_key(conn)
          next ==
            IF key \notin DOMAIN st.active
            THEN LET r == _create_session(st.table, conn, jitter[key],
                                          outcome[key])
                 IN [ table |-> r.table,
                      active |-> IF Truthy(r.id)
                                 THEN [ x \in DOMAIN st.active \cup {key} |->
                                          IF x = key
                                          THEN [ session_id |-> r.id,
                                                 last_seen |-> t ]
                                          ELSE st.active[x] ]
                                 ELSE st.active,
                      failed |-> st.failed
                                 + (IF outcome[key] = "ok" THEN 0 ELSE 1) ]
            ELSE [ st EXCEPT !.active[key].last_seen = t ]
      IN ObserveFrom(next, snapshot, k + 1, t, jitter, outcome)

\* the second loop of check_active_connections over the keys in order
RECURSIVE CloseFrom(_, _, _, _, _)
CloseFrom(st, order, k, t, closeFail) ==
    IF k > Len(order) THEN st
    ELSE CloseFrom(_close_session(st, order[k], t, order[k] \notin closeFail),
                   order, k + 1, t, closeFail)

\* check_active_connections on the snapshot it read at time t
check_active_connections(st, snapshot, t, jitter, outcome, closeFail) ==
    LET observed == ObserveFrom(st, snapshot, 1, t, jitter, outcome)
        gone == (DOMAIN observed.active) \ KeysOf(snapshot)
        order == CHOOSE o \in Orders(gone) : TRUE
    IN CloseFrom(observed, order, 1, t, closeFail)

\* TrafficAnalyzer._is_internal_ip: the prefixes 192.168., 10., 172.16.
\* and 127.
TrafficAnalyzer_is_internal_ip(ip) ==
    \/ ip[1] = 192 /\ ip[2] = 168
    \/ ip[1] = 10
    \/ ip[1] = 172 /\ ip[2] = 16
    \/ ip[1] = 127

TrafficAnalyzer_is_suspicious_ip(ip) ==
    ip \in { <<203, 0, 113, 5>>, <<198, 51, 100, 10>>, <<192, 0, 2, 50>> }

risk_points(factor) ==
    CASE factor = "excessive_data_transfer" -> 30
      [] factor = "unusual_duration"        -> 10
      [] factor = "screenshot_abuse"        -> 25
      [] factor = "clipboard_abuse"         -> 20
      [] factor = "external_ip"             -> 15
      [] factor = "suspicious_ip"           -> 40
      [] OTHER                              -> 0

RECURSIVE SumPoints(_, _)
SumPoints(risk_factors, k) ==
    IF k > Len(risk_factors) THEN 0
    ELSE risk_points(risk_factors[k]) + SumPoints(risk_factors, k + 1)

\* a variant that does not clamp the sum
_calculate_risk_score_Unclamped(session, risk_factors) ==
    LET base_score == IF Truthy(session.risk_score)
                      THEN session.risk_score ELSE 0
    IN base_score + SumPoints(risk_factors, 1)
       + (IF ~TrafficAnalyzer_is_internal_ip(session.client_ip)
          THEN risk_points("external_ip") ELSE 0)
       + (IF TrafficAnalyzer_is_suspicious_ip(session.client_ip)
          THEN risk_points("suspicious_ip") ELSE 0)

\* a variant that starts from 0 and not from the stored score
_calculate_risk_score_FromZero(session, risk_factors) ==
    LET additional_risk ==
            SumPoints(risk_factors, 1)
            + (IF ~TrafficAnalyzer_is_internal_ip(session.client_ip)
               THEN risk_points("external_ip") ELSE 0)
            + (IF TrafficAnalyzer_is_suspicious_ip(session.client_ip)
               THEN risk_points("suspicious_ip") ELSE 0)
    IN Min(additional_risk, 100)

_calculate_risk_score(session, risk_factors) ==
    LET base_score == IF Truthy(session.risk_score)
                      THEN session.risk_score ELSE 0
        additional_risk ==
            SumPoints(risk_factors, 1)
            + (IF ~TrafficAnalyzer_is_internal_ip(session.client_ip)
               THEN risk_points("external_ip") ELSE 0)
            + (IF TrafficAnalyzer_is_suspicious_ip(session.client_ip)
               THEN risk_points("suspicious_ip") ELSE 0)
    IN Min(base_score + additional_risk, 100)

\* a variant that takes a score of 85 for high
_log_threat_from_analysis_HighFrom85(session, analysis) ==
    ThreatRow("traffic_analysis_anomaly",
              IF analysis.risk_score >= 85 THEN "high" ELSE "medium",
              session.client_ip, "traffic_analysis",
              Min(analysis.risk_score * 10, 1000))

\* the ThreatLog that _log_threat_from_analysis builds of an evaluation
_log_threat_from_analysis(session, analysis) ==
    ThreatRow("traffic_analysis_anomaly",
              IF analysis.risk_score > 85 THEN "high" ELSE "medium",
              session.client_ip, "traffic_analysis",
              Min(analysis.risk_score * 10, 1000))

\* the record of an evaluation: the session it was asked of, the factors
\* its checks found and the score it returned, None with an error
NoEval == [ session_id |-> 0, risk_factors |-> << >>, risk_score |-> None ]

----------------------------------------------------------------------------
(* The baseline and the four rule-based checks.  Volumes are in MB, times  *)
(* in minutes; the code's hours are held in sixtieths of an hour, so that  *)
(* a duration in minutes is its own value; z-scores and rates are in       *)
(* thousandths.                                                            *)

RECURSIVE SumSeq(_, _)
SumSeq(xs, k) == IF k > Len(xs) THEN 0 ELSE xs[k] + SumSeq(xs, k + 1)

RECURSIVE SumSquares(_, _, _)
SumSquares(xs, m, k) ==
    IF k > Len(xs) THEN 0
    ELSE (xs[k] - m) * (xs[k] - m) + SumSquares(xs, m, k + 1)

\* the whole part of the square root
ISqrt(n) == CHOOSE r \in 0..n : r * r <= n /\ n < (r + 1) * (r + 1)

\* a variant that takes the deviation of the population
stdev_Population(xs) ==
    ISqrt(SumSquares(xs, SumSeq(xs, 1) \div Len(xs), 1) \div Len(xs))

\* statistics.mean and statistics.stdev (the sample deviation)
mean(xs) == SumSeq(xs, 1) \div Len(xs)

stdev(xs) == ISqrt(SumSquares(xs, mean(xs), 1) \div (Len(xs) - 1))

\* the positive data_transferred values and the durations of the ended
\* sessions of the last 7 days; the samples are chosen so that their mean
\* and deviation are whole numbers
NoHistory == [ data_transfers |-> << >>, session_durations |-> << >> ]

Histories ==
    { NoHistory,
      [ data_transfers |-> <<12>>, session_durations |-> <<45>> ],
      [ data_transfers |-> <<12>>, session_durations |-> <<90, 100, 110>> ],
      [ data_transfers |-> <<20, 20>>, session_durations |-> <<60, 60>> ],
      [ data_transfers |-> <<4, 10, 16>>,
        session_durations |-> <<90, 100, 110>> ] }

\* the baseline of an empty history
DefaultBaseline ==
    [ avg_data_transfer_mb |-> 10, std_data_transfer_mb |-> 5,
      avg_session_duration_hours |-> 60, std_session_duration_hours |-> 30,
      normal_screenshot_rate |-> 2, normal_clipboard_rate |-> 5 ]

_calculate_baseline_metrics(history) ==
    LET data_transfers == history.data_transfers
        session_durations == history.session_durations
    IN [ avg_data_transfer_mb |->
            IF data_transfers # << >> THEN mean(data_transfers) ELSE 10,
         std_data_transfer_mb |->
            IF Len(data_transfers) > 1 THEN stdev(data_transfers) ELSE 5,
         avg_session_duration_hours |->
            IF session_durations # << >> THEN mean(session_durations) ELSE 60,
         std_session_duration_hours |->
            IF Len(session_durations) > 1 THEN stdev(session_durations)
            ELSE 30,
         normal_screenshot_rate |-> 2,
         normal_clipboard_rate |-> 5 ]

\* a session as _create_session writes it: no counter has moved, no end
NewSession ==
    [ data_transferred |-> 0, screenshots_count |-> 0,
      clipboard_operations |-> 0, start_time |-> 0, end_time |-> None ]

\* the sessions the checks are run on, all started at minute 0: sessions
\* that differ in the volume transferred, ended sessions that differ in
\* their duration, active and ended sessions that differ in the number of
\* screenshots, and a session on which every check fires
CheckedSessions ==
    { [NewSession EXCEPT !.data_transferred = d] :
        d \in { 0, 24, 25, 26, 35, 36 } }
    \cup { [NewSession EXCEPT !.end_time = e] : e \in { 0, 1, 120, 121 } }
    \cup { [NewSession EXCEPT !.screenshots_count = c, !.end_time = e] :
             c \in { 15, 20, 25, 40, 41, 45 }, e \in { None, 0, 1, 2 } }
    \cup { [ data_transferred |-> 36, screenshots_count |-> 45,
             clipboard_operations |-> 30, start_time |-> 0,
             end_time |-> 121 ] }

\* datetime.utcnow() at the evaluation
UtcNowInputs == { 1, 2 }

\* x / y of two floats, in thousandths
Quotient(x, y) == (x * 1000) \div y

\* the result of a check: the severity of the anomaly it returns, "None"
\* when it returns None, "ZeroDivisionError" when its division raises
\* a variant that fires from z = 3 on
_analyze_data_transfer_From3(session, baseline) ==
    IF session.data_transferred <= 0 THEN "None"
    ELSE IF baseline.std_data_transfer_mb = 0 THEN "ZeroDivisionError"
    ELSE LET z_score == Quotient(session.data_transferred
                                   - baseline.avg_data_transfer_mb,
                                 baseline.std_data_transfer_mb)
         IN IF z_score >= 3000
            THEN (IF z_score > 5000 THEN "high" ELSE "medium")
            ELSE "None"

_analyze_data_transfer(session, baseline) ==
    IF session.data_transferred <= 0 THEN "None"
    ELSE IF baseline.std_data_transfer_mb = 0 THEN "ZeroDivisionError"
    ELSE LET z_score == Quotient(session.data_transferred
                                   - baseline.avg_data_transfer_mb,
                                 baseline.std_data_transfer_mb)
         IN IF z_score > 3000
            THEN (IF z_score > 5000 THEN "high" ELSE "medium")
            ELSE "None"

\* a variant that measures a session that is still active up to now
_analyze_session_duration_ActiveToo(session, baseline, utcnow) ==
    IF baseline.std_session_duration_hours = 0 THEN "ZeroDivisionError"
    ELSE LET duration_hours ==
                 (IF session.end_time = None THEN utcnow
                  ELSE session.end_time) - session.start_time
             z_score == Quotient(Abs(duration_hours
                                       - baseline.avg_session_duration_hours),
                                 baseline.std_session_duration_hours)
         IN IF z_score > 2000
            THEN (IF z_score > 2000 THEN "medium" ELSE "low")
            ELSE "None"

_analyze_session_duration(session, baseline, utcnow) ==
    IF session.end_time = None THEN "None"
    ELSE IF baseline.std_session_duration_hours = 0 THEN "ZeroDivisionError"
    ELSE LET duration_hours == session.end_time - session.start_time
             z_score == Quotient(Abs(duration_hours
                                       - baseline.avg_session_duration_hours),
                                 baseline.std_session_duration_hours)
         IN IF z_score > 2000
            THEN (IF z_score > 2000 THEN "medium" ELSE "low")
            ELSE "None"

\* a variant that always measures up to now
_analyze_screenshot_pattern_UpToNow(session, baseline, utcnow) ==
    IF session.screenshots_count <= 0 THEN "None"
    ELSE LET duration_minutes == utcnow - session.start_time
         IN IF duration_minutes <= 0 THEN "None"
            ELSE LET screenshot_rate ==
                         Quotient(session.screenshots_count, duration_minutes)
                     normal_rate == baseline.normal_screenshot_rate * 1000
                 IN IF screenshot_rate > normal_rate * 10
                    THEN (IF screenshot_rate > normal_rate * 20
                          THEN "high" ELSE "medium")
                    ELSE "None"

_analyze_screenshot_pattern(session, baseline, utcnow) ==
    IF session.screenshots_count <= 0 THEN "None"
    ELSE LET duration_minutes ==
                 (IF session.end_time # None THEN session.end_time
                  ELSE utcnow) - session.start_time
         IN IF duration_minutes <= 0 THEN "None"
            ELSE LET screenshot_rate ==
                         Quotient(session.screenshots_count, duration_minutes)
                     normal_rate == baseline.normal_screenshot_rate * 1000
                 IN IF screenshot_rate > normal_rate * 10
                    THEN (IF screenshot_rate > normal_rate * 20
                          THEN "high" ELSE "medium")
                    ELSE "None"

_analyze_clipboard_pattern(session, baseline, utcnow) ==
    IF session.clipboard_operations <= 0 THEN "None"
    ELSE LET duration_minutes ==
                 (IF session.end_time # None THEN session.end_time
                  ELSE utcnow) - session.start_time
         IN IF duration_minutes <= 0 THEN "None"
            ELSE LET clipboard_rate ==
                         Quotient(session.clipboard_operations,
                                  duration_minutes)
                     normal_rate == baseline.normal_clipboard_rate * 1000
                 IN IF clipboard_rate > normal_rate * 5
                    THEN (IF clipboard_rate > normal_rate * 10
                          THEN "high" ELSE "medium")
                    ELSE "None"

\* the four checks of analyze_session in their order: what each returned,
\* the risk_factors list built of them, and whether one of them raised (in
\* which case analyze_session returns an error and no list)
SessionChecks(session, baseline, utcnow) ==
    LET data_anomaly == _analyze_data_transfer(session, baseline)
        duration_anomaly == _analyze_session_duration(session, baseline, utcnow)
        screenshot_anomaly ==
            _analyze_screenshot_pattern(session, baseline, utcnow)
        clipboard_anomaly ==
            _analyze_clipboard_pattern(session, baseline, utcnow)
        error == "ZeroDivisionError" \in { data_anomaly, duration_anomaly }
        Factor(anomaly, name) ==
            IF anomaly # "None" THEN <<name>> ELSE << >>
    IN [ session |-> session, utcnow |-> utcnow, error |-> error,
         data_anomaly |-> data_anomaly,
         duration_anomaly |->
            IF data_anomaly = "ZeroDivisionError" THEN "None"
            ELSE duration_anomaly,
         screenshot_anomaly |-> IF error THEN "None" ELSE screenshot_anomaly,
         clipboard_anomaly |-> IF error THEN "None" ELSE clipboard_anomaly,
         risk_factors |->
            IF error THEN << >>
            ELSE Factor(data_anomaly, "excessive_data_transfer")
                 \o Factor(duration_anomaly, "unusual_duration")
                 \o Factor(screenshot_anomaly, "screenshot_abuse")
                 \o Factor(clipboard_anomaly, "clipboard_abuse") ]

NoCheck ==
    [ session |-> NewSession, utcnow |-> 0, error |-> FALSE, data_anomaly |-> "None",
      duration_anomaly |-> "None", screenshot_anomaly |-> "None",
      clipboard_anomaly |-> "None", risk_factors |-> << >> ]

----------------------------------------------------------------------------
(* The periodic tasks of the platform *)

\* the tasks start_monitoring creates
TaskNames == { "monitor", "analysis", "cleanup" }

\* the result of the last call of detect_anomaly and the number of calls
\* so far: an error, or the verdict and the confidence of the ensemble
\* with the outputs of the two models
NoDetection ==
    [ calls |-> 0, session_id |-> 0, error |-> "", is_anomaly |-> FALSE,
      confidence |-> None, isolation_forest |-> << >>,
      random_forest |-> << >> ]

\* the result of detect_anomaly on a stored session for the decision
\* score and the classifier output (label, probability) of the two models
detect_anomaly_result(session_id, score, rf) ==
    LET isolation_prediction == isolation_forest_predict(score)
        rf_prediction == rf[1]
        rf_probability == rf[2]
    IN [ session_id |-> session_id, error |-> "",
         is_anomaly |-> is_anomaly(isolation_prediction, rf_prediction),
         confidence |-> _calculate_confidence(score, rf_probability),
         isolation_forest |-> <<isolation_prediction, score>>,
         random_forest |-> rf ]

\* model outputs in a sweep: an inlier without the classifier, and a
\* session the classifier flags, of confidence 0.75
SweepOutputs ==
    { <<200, <<None, << >>>>>>,
      <<0, <<1, <<0, 1000>>>>>> }

\* the loop of the ML analyze_recent_traffic from session i on: the
\* results of detect_anomaly, the threat table with the records that
\* _log_ml_threat committed, and the commits that failed
RECURSIVE MlSweep(_, _, _, _, _)
MlSweep(table, threats, outputs, threatFail, i) ==
    IF i > Len(table)
    THEN [ threats |-> threats, results |-> << >>, failed |-> 0 ]
    ELSE LET result == detect_anomaly_result(i, outputs[i][1], outputs[i][2])
             due == result.is_anomaly /\ result.confidence > 700
             row == _log_ml_threat(table[i], result)
             rest == MlSweep(table,
                             IF due /\ i \notin threatFail
                             THEN Append(threats, row) ELSE threats,
                             outputs, threatFail, i + 1)
         IN [ threats |-> rest.threats,
              results |-> <<result>> \o rest.results,
              failed |-> rest.failed
                         + (IF due /\ i \in threatFail THEN 1 ELSE 0) ]

\* a variant of the ML analysis that does not ask whether the models are
\* trained
ml_analyze_recent_traffic_Unguarded(trained, table, threats, outputs, threatFail) ==
    LET sweep == MlSweep(table, threats, outputs, threatFail, 1)
    IN [ error |-> "", threats |-> sweep.threats,
         results |-> sweep.results, failed |-> sweep.failed ]

\* AnomalyDetector.analyze_recent_traffic: an error while the models are
\* not trained, the loop over the recent sessions otherwise
ml_analyze_recent_traffic(trained, table, threats, outputs, threatFail) ==
    IF ~trained
    THEN [ error |-> "Models not trained", threats |-> threats,
           results |-> << >>, failed |-> 0 ]
    ELSE LET sweep == MlSweep(table, threats, outputs, threatFail, 1)
         IN [ error |-> "", threats |-> sweep.threats,
              results |-> sweep.results, failed |-> sweep.failed ]

\* the loop of the rule-based analyze_recent_traffic from session i on:
\* analyze_session on each session in turn.  A commit of the score that
\* fails raises inside analyze_session, whose except clause returns an
\* error result and whose db.close() discards the pending score; a commit
\* of the threat that fails is rolled back inside
\* _log_threat_from_analysis and the result stays a normal one.
RECURSIVE RuleSweep(_, _, _, _, _, _)
RuleSweep(table, threats, factors, commitFail, threatFail, i) ==
    IF i > Len(table)
    THEN [ table |-> table, threats |-> threats, results |-> << >>,
           failed |-> 0 ]
    ELSE LET session == table[i]
             risk_score == _calculate_risk_score(session, factors[i])
             committed == i \notin commitFail
             due == committed /\ risk_score > 70
             row == _log_threat_from_analysis(session,
                                              [risk_score |-> risk_score])
             result == [ session_id |-> i, error |-> ~committed,
                         risk_factors |-> factors[i],
                         risk_score |-> IF committed THEN risk_score
                                        ELSE None ]
             rest == RuleSweep(
                         IF committed
                         THEN [table EXCEPT ![i].risk_score = risk_score]
                         ELSE table,
                         IF due /\ i \notin threatFail
                         THEN Append(threats, row) ELSE threats,
                         factors, commitFail, threatFail, i + 1)
         IN [ table |-> rest.table, threats |-> rest.threats,
              results |-> <<result>> \o rest.results,
              failed |-> rest.failed
                         + (IF ~committed THEN 1 ELSE 0)
                         + (IF due /\ i \in threatFail THEN 1 ELSE 0) ]

\* a variant that writes no record of an address that has one already
rule_analyze_recent_traffic_Deduplicating(table, threats, factors, commitFail, threatFail) ==
    LET sweep == RuleSweep(table, threats, factors, commitFail, threatFail, 1)
        new == SubSeq(sweep.threats, Len(threats) + 1, Len(sweep.threats))
        Fresh(row) == \A k \in DOMAIN threats :
                          threats[k].source_ip # row.source_ip
    IN [sweep EXCEPT !.threats = threats \o SelectSeq(new, Fresh)]

\* a variant in which a commit that fails ends the whole analysis
rule_analyze_recent_traffic_Abort(table, threats, factors, commitFail, threatFail) ==
    IF commitFail # {}
    THEN [ table |-> table, threats |-> threats, results |-> << >>,
           failed |-> Cardinality(commitFail) ]
    ELSE RuleSweep(table, threats, factors, commitFail, threatFail, 1)

\* TrafficAnalyzer.analyze_recent_traffic: analyze_session on every recent
\* session, whatever the earlier ones returned
rule_analyze_recent_traffic(table, threats, factors, commitFail, threatFail) ==
    RuleSweep(table, threats, factors, commitFail, threatFail, 1)

\* the writes of an iteration over n sessions: the ML threat, the score
\* and the rule-based threat of each session
SweepWrites(n) == { "ml", "score", "threat" } \X (1..n)

\* the writes that fail in an iteration: none of them, or one
FailureSets(n, budget) ==
    { {} } \cup (IF budget >= 1 THEN { {w} : w \in SweepWrites(n) } ELSE {})

\* the outputs of the models for the n sessions of a sweep; they are not
\* asked for anything while the models are not trained
SweepOutputsOf(n, trained) ==
    IF trained THEN [1..n -> SweepOutputs]
    ELSE { [i \in 1..n |-> <<200, <<None, << >>>>>>] }

\* the sessions whose write of one kind is among the failing ones
FailedOf(fail, kind) == { w[2] : w \in { v \in fail : v[1] = kind } }

\* what the iterations of _periodic_analysis did: how many have run, and
\* of the last one the error of the ML analysis, its results per session
\* and the results per session of the rule-based analysis
NoCycle ==
    [ cycles |-> 0, ml_error |-> "", ml_results |-> << >>,
      rule_results |-> << >> ]

----------------------------------------------------------------------------
(* The record of a public call *)

NoCall ==
    [ op |-> "none", ip |-> <<>>, duration |-> None, reason |-> <<>>,
      success |-> FALSE, error |-> "", removes |-> 0, warned |-> 0,
      removed_count |-> 0, threat |-> 0, duration_arg |-> None,
      status |-> "", broadcast |-> "" ]

\* the record of a call: its arguments, the result r it returned, the
\* enforcement removals it made and the enforcement failures it logged; of
\* a call that failed, the operation, the address and the error it
\* returned.  status and broadcast are the response and the notification
\* of the HTTP endpoint, when the call came through one.
Call(op, ip, duration, reason, r, removed_count) ==
    IF r.success
    THEN [ op |-> op, ip |-> ip, duration |-> duration, reason |-> reason,
           success |-> TRUE, error |-> "", removes |-> r.st.removes,
           warned |-> r.st.warned, removed_count |-> removed_count,
           threat |-> 0, duration_arg |-> None,
           status |-> "", broadcast |-> "" ]
    ELSE [ op |-> op, ip |-> ip, duration |-> None, reason |-> <<>>,
           success |-> FALSE, error |-> r.error, removes |-> r.st.removes,
           warned |-> r.st.warned, removed_count |-> 0,
           threat |-> 0, duration_arg |-> None,
           status |-> "", broadcast |-> "" ]

Install(st) ==
    /\ db_failures + st.failed <= MaxDbFailures
    /\ db_failures' = db_failures + st.failed
    /\ blocked_ips' = st.blocked
    /\ temporary_blocks' = st.temp
    /\ firewall_rules' = st.rules
    /\ audit_logs' = st.audit

----------------------------------------------------------------------------
(* Actions *)

Init ==
    /\ platform \in Platforms
    /\ now = 0
    /\ blocked_ips = {}
    /\ temporary_blocks = << >>
    /\ firewall_rules = << >>
    /\ audit_logs = << >>
    /\ threat_logs = << >>
    /\ threat_objects = << >>
    /\ db_failures = 0
    /\ requests = 0
    /\ last = NoCall
    /\ vnc_sessions = << >>
    /\ active_sessions = << >>
    /\ polls = 0
    /\ evaluations = 0
    /\ last_poll = {}
    /\ last_eval = NoEval
    /\ baseline_metrics = DefaultBaseline
    /\ baseline_history = NoHistory
    /\ last_check = NoCheck
    /\ is_trained = FALSE
    /\ last_detection = NoDetection
    /\ running = FALSE
    /\ monitoring_active = FALSE
    /\ tasks = [t \in TaskNames |-> "none"]
    /\ last_cycle = NoCycle

Tick ==
    /\ now < MaxTicks * TickMinutes
    /\ now' = now + TickMinutes
    /\ UNCHANGED <<platform, detvars, schedvars, fwvars, threatvars, db_failures, requests, last,
                   sessvars>>

\* the outcomes of the enforcement primitive and of a persistence write:
\* a call that returns before it reaches them has none to choose
EnforceOutcomes(reached) ==
    IF reached /\ firewall_cmd(platform) # "None" THEN BOOLEAN ELSE { TRUE }

WriteOutcomes(reached) == IF reached THEN BOOLEAN ELSE { TRUE }

BlockIp ==
    \E ip \in IpInputs, args \in BlockArgs :
      \E enforceOk \in EnforceOutcomes(ValidIp(ip) /\ ~_is_internal_ip(ip)),
         storeOk \in WriteOutcomes(ValidIp(ip) /\ ~_is_internal_ip(ip)),
         auditOk \in WriteOutcomes(ValidIp(ip) /\ ~_is_internal_ip(ip)) :
        LET d == args[1]
            reason == args[2]
            r == block_ip(FwState, platform, ip, d, reason, now, enforceOk,
                          storeOk, auditOk)
        IN /\ requests < MaxRequests
           /\ requests' = requests + 1
           /\ Install(r.st)
           /\ last' = Call("block", ip, d, reason, r, 0)
           /\ UNCHANGED <<platform, detvars, schedvars, now, threatvars, sessvars>>

\* POST /api/block-ip: block_ip with its default arguments, then the
\* broadcast to the connected clients and the response.  block_ip and
\* broadcast catch what is raised inside them, so the except clause of the
\* endpoint is not reached.
block_ip_address(ip, result) ==
    [ broadcast |-> "ip_blocked", status |-> "success" ]

unblock_ip_address(ip, result) ==
    [ broadcast |-> "ip_unblocked", status |-> "success" ]

BlockIpAddress ==
    \E ip \in IpInputs :
      \E enforceOk \in EnforceOutcomes(ValidIp(ip) /\ ~_is_internal_ip(ip)),
         storeOk \in WriteOutcomes(ValidIp(ip) /\ ~_is_internal_ip(ip)),
         auditOk \in WriteOutcomes(ValidIp(ip) /\ ~_is_internal_ip(ip)) :
        LET r == block_ip(FwState, platform, ip, None, ManualBlock, now,
                          enforceOk, storeOk, auditOk)
            response == block_ip_address(ip, r)
        IN /\ requests < MaxRequests
           /\ requests' = requests + 1
           /\ Install(r.st)
           /\ last' = [ Call("block", ip, None, ManualBlock, r, 0)
                          EXCEPT !.status = response.status,
                                 !.broadcast = response.broadcast ]
           /\ UNCHANGED <<platform, detvars, schedvars, now, threatvars,
                          sessvars>>

\* POST /api/unblock-ip
UnblockIpAddress ==
    \E ip \in IpInputs :
      \E enforceOk \in EnforceOutcomes(ValidIp(ip) /\ ip \in blocked_ips),
         updateOk \in WriteOutcomes(ValidIp(ip) /\ ip \in blocked_ips),
         auditOk \in WriteOutcomes(ValidIp(ip) /\ ip \in blocked_ips) :
        LET r == unblock_ip(FwState, platform, ip, ManualUnblock, enforceOk,
                            updateOk, auditOk)
            response == unblock_ip_address(ip, r)
        IN /\ requests < MaxRequests
           /\ requests' = requests + 1
           /\ Install(r.st)
           /\ last' = [ Call("unblock", ip, None, ManualUnblock, r, 0)
                          EXCEPT !.status = response.status,
                                 !.broadcast = response.broadcast ]
           /\ UNCHANGED <<platform, detvars, schedvars, now, threatvars,
                          sessvars>>

UnblockIp ==
    \E ip \in IpInputs :
      \E enforceOk \in EnforceOutcomes(ValidIp(ip) /\ ip \in blocked_ips),
         updateOk \in WriteOutcomes(ValidIp(ip) /\ ip \in blocked_ips),
         auditOk \in WriteOutcomes(ValidIp(ip) /\ ip \in blocked_ips) :
        LET r == unblock_ip(FwState, platform, ip, ManualUnblock, enforceOk,
                            updateOk, auditOk)
        IN /\ requests < MaxRequests
           /\ requests' = requests + 1
           /\ Install(r.st)
           /\ last' = Call("unblock", ip, None, ManualUnblock, r, 0)
           /\ UNCHANGED <<platform, detvars, schedvars, now, threatvars, sessvars>>

\* the addresses whose removal the primitive fails in one sweep: none or,
\* where the platform has a primitive, all of them
SweepEnforceOutcomes(expired_ips) ==
    IF firewall_cmd(platform) # "None" THEN { {}, expired_ips } ELSE { {} }

\* cleanup_expired_blocks: the sweep over the expired addresses
CleanupBody ==
    /\ UNCHANGED <<platform, detvars, now, requests, threatvars, sessvars>>
    /\ LET expired_ips == ExpiredIps(temporary_blocks, now)
       IN \E order \in Orders(expired_ips),
             enfFail \in SweepEnforceOutcomes(expired_ips),
             updFail \in SUBSET expired_ips, audFail \in SUBSET expired_ips :
         /\ db_failures + Cardinality(updFail) + Cardinality(audFail)
              <= MaxDbFailures
         /\ \E r \in { SweepFrom(FwState, platform, order, 1, enfFail, updFail,
                                  audFail) } :
              /\ Install(r.st)
              /\ last' = Call("cleanup", <<>>, None, <<>>,
                               [st |-> r.st, success |-> TRUE, error |-> ""],
                               r.removed_count)

\* cleanup_expired_blocks called outside the platform's tasks
CleanupExpiredBlocks == CleanupBody /\ UNCHANGED schedvars

\* analyze_session from the risk score on: a score above 70 is logged
LogThreatFromAnalysis ==
    \E client_ip \in ThreatSources, risk_score \in RiskScores,
       commitOk \in BOOLEAN :
        /\ IF risk_score > 70
           THEN PersistThreat(
                    ThreatRow("traffic_analysis_anomaly",
                              IF risk_score > 85 THEN "high" ELSE "medium",
                              client_ip, "traffic_analysis",
                              Min(risk_score * 10, 1000)),
                    commitOk)
           ELSE UNCHANGED <<threatvars, db_failures>>
        /\ UNCHANGED <<platform, detvars, schedvars, now, fwvars, requests, last, sessvars>>

\* detect_anomaly from the two models' outputs on
DetectAnomaly ==
    \E client_ip \in ThreatSources, iso \in IsolationOutputs,
       rf \in ForestOutputs, commitOk \in BOOLEAN :
        LET isolation_prediction == iso[1]
            isolation_score == iso[2]
            rf_prediction == rf[1]
            rf_probability == rf[2]
            confidence == _calculate_confidence(isolation_score, rf_probability)
        IN /\ IF /\ is_anomaly(isolation_prediction, rf_prediction)
                 /\ confidence > 700
              THEN PersistThreat(
                       _log_ml_threat([client_ip |-> client_ip],
                                      [confidence |-> confidence]),
                       commitOk)
              ELSE UNCHANGED <<threatvars, db_failures>>
           /\ UNCHANGED <<platform, detvars, schedvars, now, fwvars, requests, last, sessvars>>

\* AttackSimulator._log_threat: full confidence, the severity it is given
SimulatorLogThreat ==
    \E source_ip \in ThreatSources, severity \in Severities,
       commitOk \in BOOLEAN :
        /\ PersistThreat(ThreatRow("simulated_attack", severity, source_ip,
                                   "simulation", 1000), commitOk)
        /\ UNCHANGED <<platform, detvars, schedvars, now, fwvars, requests, last, sessvars>>

\* auto_block_threat_ip on the instance a caller holds of row i.  The
\* session db that the method opens and commits never had the instance
\* added to it: its commit writes nothing, and the row stays as it was.
AutoBlockThreatIp ==
    \E i \in 1..Len(threat_objects), duration_minutes \in DurationArgs :
      \E enforceOk \in EnforceOutcomes(~_is_internal_ip(threat_objects[i].source_ip)),
         storeOk \in WriteOutcomes(~_is_internal_ip(threat_objects[i].source_ip)),
         auditOk \in WriteOutcomes(~_is_internal_ip(threat_objects[i].source_ip)) :
        LET threat_log == threat_objects[i]
            duration == severity_durations(threat_log.severity, duration_minutes)
            reason == <<"Auto-blocked due to", threat_log.threat_type,
                        "severity", threat_log.severity>>
            r == block_ip(FwState, platform, threat_log.source_ip, duration,
                          reason, now, enforceOk, storeOk, auditOk)
        IN /\ requests < MaxRequests
           /\ requests' = requests + 1
           /\ Install(r.st)
           /\ threat_objects' =
                IF r.success
                THEN [threat_objects EXCEPT
                        ![i].action_taken = <<"ip_blocked", duration, "min">>,
                        ![i].blocked_automatically = TRUE]
                ELSE threat_objects
           /\ threat_logs' = threat_logs
           /\ last' = [ Call("auto_block", threat_log.source_ip, duration,
                             reason, r, 0)
                        EXCEPT !.threat = i, !.duration = duration,
                               !.duration_arg = duration_minutes ]
           /\ UNCHANGED <<platform, detvars, schedvars, now, sessvars>>


\* the sessions the simulator fabricated: their server is 127.0.0.1
FakeSessions ==
    { i \in DOMAIN vnc_sessions : vnc_sessions[i].server_ip = <<127, 0, 0, 1>> }

\* the polls, evaluations, fabrications, periodic analyses and calls of
\* detect_anomaly made so far
SessionSteps ==
    polls + evaluations + Cardinality(FakeSessions) + last_cycle.cycles
    + last_detection.calls

\* one iteration of start_monitoring: check_active_connections on the
\* snapshot it reads; the time it stamps is the ordinal of the poll
PollBody ==
    \E snapshot \in Snapshots :
      LET new == KeysOf(snapshot) \ DOMAIN active_sessions
          gone == (DOMAIN active_sessions) \ KeysOf(snapshot)
      IN \E jitter \in { [k \in new |-> j] : j \in JitterInputs },
            outcome \in [new -> CreateOutcomes],
            closeFail \in SUBSET gone :
           \E r \in { check_active_connections(MonitorState, snapshot,
                                                polls + 1, jitter, outcome,
                                                closeFail) } :
             /\ SessionSteps < MaxSessionSteps
             /\ db_failures + r.failed <= MaxDbFailures
             /\ polls' = polls + 1
             /\ db_failures' = db_failures + r.failed
             /\ vnc_sessions' = r.table
             /\ active_sessions' = r.active
             /\ last_poll' = KeysOf(snapshot)
             /\ UNCHANGED <<platform, detvars, now, fwvars, threatvars,
                            requests, last, evaluations, last_eval>>

\* an iteration of the monitor outside the platform's tasks
Poll == PollBody /\ UNCHANGED schedvars

\* AttackSimulator._create_fake_session
CreateFakeSession ==
    \E client_ip \in FakeClientIps, risk_score \in FakeRiskScores,
       commitOk \in BOOLEAN :
        /\ SessionSteps < MaxSessionSteps
        /\ db_failures + (IF commitOk THEN 0 ELSE 1) <= MaxDbFailures
        /\ db_failures' = db_failures + (IF commitOk THEN 0 ELSE 1)
        /\ vnc_sessions' =
             IF commitOk
             THEN Append(vnc_sessions,
                         [ client_ip |-> client_ip,
                           server_ip |-> <<127, 0, 0, 1>>,
                           client_port |-> 50000, server_port |-> 5900,
                           end_time |-> None, status |-> "active",
                           risk_score |-> risk_score ])
             ELSE vnc_sessions
        /\ UNCHANGED <<platform, detvars, schedvars, now, fwvars, threatvars, requests, last,
                       active_sessions, polls, evaluations, last_poll,
                       last_eval>>

\* TrafficAnalyzer.analyze_session with the factors its four checks found
AnalyzeSession ==
    \E session_id \in 1..(Len(vnc_sessions) + 1),
       risk_factors \in RiskFactorInputs,
       commitOk \in BOOLEAN, threatOk \in BOOLEAN :
        /\ SessionSteps < MaxSessionSteps
        /\ evaluations' = evaluations + 1
        /\ IF session_id \notin DOMAIN vnc_sessions
           THEN /\ last_eval' = [ session_id |-> session_id,
                                  risk_factors |-> << >>,
                                  risk_score |-> None ]
                /\ UNCHANGED <<vnc_sessions, threatvars, db_failures>>
           ELSE
             LET session == vnc_sessions[session_id]
                 risk_score == _calculate_risk_score(session, risk_factors)
             IN IF ~commitOk
                THEN /\ db_failures < MaxDbFailures
                     /\ db_failures' = db_failures + 1
                     /\ last_eval' = [ session_id |-> session_id,
                                       risk_factors |-> risk_factors,
                                       risk_score |-> None ]
                     /\ UNCHANGED <<vnc_sessions, threatvars>>
                ELSE /\ vnc_sessions' =
                          [vnc_sessions EXCEPT
                             ![session_id].risk_score = risk_score]
                     /\ last_eval' = [ session_id |-> session_id,
                                       risk_factors |-> risk_factors,
                                       risk_score |-> risk_score ]
                     /\ IF risk_score > 70
                        THEN PersistThreat(
                                 _log_threat_from_analysis(
                                     session, [risk_score |-> risk_score]),
                                 threatOk)
                        ELSE UNCHANGED <<threatvars, db_failures>>
        /\ UNCHANGED <<platform, detvars, schedvars, now, fwvars, requests, last,
                       active_sessions, polls, last_poll>>

\* the address has a record of the rule-based evaluator
OnRecord(client_ip) ==
    \E k \in DOMAIN threat_logs :
        /\ threat_logs[k].detection_method = "traffic_analysis"
        /\ threat_logs[k].source_ip = client_ip

\* analyze_session on a stored session, as analyze_recent_traffic calls it
\* period after period.  The evaluations are not counted: a session is
\* evaluated for as long as its stored score is at most 70 or its address
\* has no record yet, which keeps the tables finite.
ReanalyzeSession(session_id) ==
    /\ session_id \in DOMAIN vnc_sessions
    /\ \/ vnc_sessions[session_id].risk_score <= 70
       \/ ~OnRecord(vnc_sessions[session_id].client_ip)
    /\ \E risk_factors \in RiskFactorInputs, commitOk \in BOOLEAN,
          threatOk \in BOOLEAN :
         LET session == vnc_sessions[session_id]
             risk_score == _calculate_risk_score(session, risk_factors)
         IN IF ~commitOk
            THEN /\ db_failures < MaxDbFailures
                 /\ db_failures' = db_failures + 1
                 /\ last_eval' = [ session_id |-> session_id,
                                   risk_factors |-> risk_factors,
                                   risk_score |-> None ]
                 /\ UNCHANGED <<vnc_sessions, threatvars>>
            ELSE /\ vnc_sessions' =
                      [vnc_sessions EXCEPT
                         ![session_id].risk_score = risk_score]
                 /\ last_eval' = [ session_id |-> session_id,
                                   risk_factors |-> risk_factors,
                                   risk_score |-> risk_score ]
                 /\ IF risk_score <= 70
                    THEN UNCHANGED <<threatvars, db_failures>>
                    ELSE IF threatOk
                    THEN /\ Len(threat_logs) < MaxSweepThreats
                         /\ \E row \in { _log_threat_from_analysis(
                                             session,
                                             [risk_score |-> risk_score]) } :
                              /\ threat_logs' = Append(threat_logs, row)
                              /\ threat_objects' = Append(threat_objects, row)
                         /\ UNCHANGED db_failures
                    ELSE /\ db_failures < MaxDbFailures
                         /\ db_failures' = db_failures + 1
                         /\ UNCHANGED threatvars
    /\ UNCHANGED <<platform, detvars, schedvars, now, fwvars, requests, last,
                   active_sessions, polls, evaluations, last_poll>>

\* _calculate_baseline_metrics on the history of the last 7 days
CalculateBaselineMetrics ==
    \E history \in Histories :
        /\ baseline_metrics' = _calculate_baseline_metrics(history)
        /\ baseline_history' = history
        /\ UNCHANGED <<platform, now, fwvars, threatvars, db_failures,
                       requests, last, sessvars, last_check, is_trained,
                       last_detection, schedvars>>

\* the four checks of analyze_session on a session, at the time utcnow
RunSessionChecks ==
    \E session \in CheckedSessions, utcnow \in UtcNowInputs :
        /\ last_check' = SessionChecks(session, baseline_metrics, utcnow)
        /\ UNCHANGED <<platform, now, fwvars, threatvars, db_failures,
                       requests, last, sessvars, baseline_metrics,
                       baseline_history,
                       is_trained, last_detection, schedvars>>

\* load_or_train_models: the models are loaded or trained, or the attempt
\* fails and leaves the detector as it was
LoadOrTrainModels ==
    \E trained \in BOOLEAN :
        /\ is_trained' = (is_trained \/ trained)
        /\ UNCHANGED <<platform, now, fwvars, threatvars, db_failures,
                       requests, last, sessvars, baseline_metrics,
                       baseline_history,
                       last_check, last_detection, schedvars>>

\* detect_anomaly(session_id), the two models giving the outputs drawn
DetectAnomalyOfSession ==
    \E session_id \in 1..(Len(vnc_sessions) + 1) :
        /\ SessionSteps < MaxSessionSteps
        /\ IF ~is_trained
           THEN /\ last_detection' =
                     [NoDetection EXCEPT !.calls = last_detection.calls + 1,
                                         !.session_id = session_id,
                                         !.error = "Models not trained"]
                /\ UNCHANGED <<threatvars, db_failures>>
           ELSE IF session_id \notin DOMAIN vnc_sessions
           THEN /\ last_detection' =
                     [NoDetection EXCEPT !.calls = last_detection.calls + 1,
                                         !.session_id = session_id,
                                         !.error = "Session not found"]
                /\ UNCHANGED <<threatvars, db_failures>>
           ELSE
             \E score \in DecisionScores, rf \in ClassifierOutputs :
                LET session == vnc_sessions[session_id]
                    result == detect_anomaly_result(session_id, score, rf)
                IN /\ last_detection' =
                        [calls |-> last_detection.calls + 1] @@ result
                   /\ IF result.is_anomaly /\ result.confidence > 700
                      THEN \E commitOk \in BOOLEAN :
                              PersistThreat(_log_ml_threat(session, result),
                                            commitOk)
                      ELSE UNCHANGED <<threatvars, db_failures>>
        /\ UNCHANGED <<platform, now, fwvars, requests, last, sessvars,
                       baseline_metrics, baseline_history, last_check,
                       is_trained, schedvars>>

\* VNCProtectionPlatform.start_monitoring: the three tasks are created,
\* then running is set, with no await in between
StartMonitoring ==
    /\ \A t \in TaskNames : tasks[t] = "none"
    /\ tasks' = [t \in TaskNames |-> "created"]
    /\ running' = TRUE
    /\ UNCHANGED <<platform, now, fwvars, threatvars, db_failures, requests,
                   last, sessvars, detvars, monitoring_active, last_cycle>>

\* VNCProtectionPlatform.stop, which calls VNCMonitor.stop_monitoring
Stop ==
    /\ tasks # [t \in TaskNames |-> "none"]
    /\ running' = FALSE
    /\ monitoring_active' = FALSE
    /\ UNCHANGED <<platform, now, fwvars, threatvars, db_failures, requests,
                   last, sessvars, detvars, tasks, last_cycle>>

\* a variant in which an exception raised in an iteration ends the task
TaskAfterIteration_Propagates(raised) == IF raised THEN "done" ELSE "sleeping"

\* where a task is after an iteration of its loop: asleep for its period,
\* or, an exception having been raised in the iteration and caught by an
\* except clause of the task, asleep for its back-off
TaskAfterIteration(raised) == "sleeping"

\* a step of the task of VNCMonitor.start_monitoring up to its next sleep.
\* The first step sets monitoring_active before it tests it; a later one
\* leaves the loop when the flag is down.
MonitorTask ==
    /\ tasks["monitor"] \in { "created", "sleeping" }
    /\ IF tasks["monitor"] = "created" \/ monitoring_active
       THEN /\ PollBody
            /\ monitoring_active' = TRUE
            /\ tasks' = [tasks EXCEPT !["monitor"] =
                            TaskAfterIteration(db_failures' > db_failures)]
       ELSE /\ tasks' = [tasks EXCEPT !["monitor"] = "done"]
            /\ UNCHANGED <<platform, now, fwvars, threatvars, db_failures,
                           requests, last, sessvars, detvars,
                           monitoring_active>>
    /\ UNCHANGED <<running, last_cycle>>

\* a step of the task of _periodic_analysis up to its next sleep: the ML
\* analysis of the recent sessions, then the rule-based one.  No time
\* passes between the steps of the tasks, so every stored session is a
\* recent one.
AnalysisTask ==
    /\ tasks["analysis"] \in { "created", "sleeping" }
    /\ UNCHANGED <<platform, now, fwvars, requests, last, active_sessions,
                   polls, evaluations, last_poll, last_eval, detvars,
                   running, monitoring_active>>
    /\ IF ~running
       THEN /\ tasks' = [tasks EXCEPT !["analysis"] = "done"]
            /\ UNCHANGED <<vnc_sessions, threatvars, db_failures, last_cycle>>
       ELSE
         LET n == Len(vnc_sessions)
         IN /\ SessionSteps < MaxSessionSteps
            /\ \E outputs \in SweepOutputsOf(n, is_trained),
                  factors \in [1..n -> RiskFactorInputs],
                  fail \in FailureSets(n, MaxDbFailures - db_failures) :
                 \E ml \in { ml_analyze_recent_traffic(
                                  is_trained, vnc_sessions, threat_logs,
                                  outputs, FailedOf(fail, "ml")) } :
                 \E rule \in { rule_analyze_recent_traffic(
                                    vnc_sessions, ml.threats, factors,
                                    FailedOf(fail, "score"),
                                    FailedOf(fail, "threat")) } :
                   /\ ml.failed + rule.failed = Cardinality(fail)
                   /\ db_failures + ml.failed + rule.failed <= MaxDbFailures
                   /\ Len(rule.threats) <= MaxSweepThreats
                   /\ db_failures' = db_failures + ml.failed + rule.failed
                   /\ vnc_sessions' = rule.table
                   /\ threat_logs' = rule.threats
                   /\ threat_objects' =
                        threat_objects
                        \o SubSeq(rule.threats, Len(threat_logs) + 1,
                                  Len(rule.threats))
                   /\ last_cycle' =
                        [ cycles |-> last_cycle.cycles + 1,
                          ml_error |-> ml.error,
                          ml_results |-> ml.results,
                          rule_results |-> rule.results ]
                   /\ tasks' = [tasks EXCEPT !["analysis"] =
                                   TaskAfterIteration(
                                       ml.failed + rule.failed > 0)]

\* a step of the task of _periodic_cleanup up to its next sleep
CleanupTask ==
    /\ tasks["cleanup"] \in { "created", "sleeping" }
    /\ IF running
       THEN /\ CleanupBody
            /\ tasks' = [tasks EXCEPT !["cleanup"] =
                            TaskAfterIteration(db_failures' > db_failures)]
       ELSE /\ tasks' = [tasks EXCEPT !["cleanup"] = "done"]
            /\ UNCHANGED <<platform, now, fwvars, threatvars, db_failures,
                           requests, last, sessvars, detvars>>
    /\ UNCHANGED <<running, monitoring_active, last_cycle>>

----------------------------------------------------------------------------
(* Specifications *)

\* the response engine under block and unblock requests and the sweep
Next ==
    \/ Tick
    \/ BlockIp
    \/ UnblockIp
    \/ CleanupExpiredBlocks

Spec == Init /\ [][Next]_vars

\* _periodic_cleanup calls cleanup_expired_blocks again and again
FairSpec == Spec /\ WF_vars(CleanupExpiredBlocks)

\* the evaluators and the automatic response to the threats they write
ThreatNext ==
    \/ LogThreatFromAnalysis
    \/ DetectAnomaly
    \/ SimulatorLogThreat
    \/ AutoBlockThreatIp

ThreatSpec == Init /\ [][ThreatNext]_vars

\* _periodic_analysis runs both evaluators again and again
FairThreatSpec ==
    ThreatSpec /\ WF_vars(LogThreatFromAnalysis) /\ WF_vars(DetectAnomaly)


\* the monitor, the simulator and the rule-based evaluator over the
\* session table
SessionNext ==
    \/ Poll
    \/ CreateFakeSession
    \/ AnalyzeSession

SessionSpec == Init /\ [][SessionNext]_vars

\* the monitor's first poll of the connections
FirstPoll == polls = 0 /\ Poll

\* the rows the first poll can write
FirstSessionIds == 1..Len(LiveConnections)

\* the sessions the monitor finds, evaluated period after period
RiskNext ==
    \/ FirstPoll
    \/ \E session_id \in FirstSessionIds : ReanalyzeSession(session_id)

RiskSpec == Init /\ [][RiskNext]_vars

\* analyze_recent_traffic evaluates every recent session in each period
FairRiskSpec ==
    RiskSpec
    /\ \A session_id \in FirstSessionIds :
          WF_vars(ReanalyzeSession(session_id))

\* the manual endpoints of the dashboard's backend
EndpointNext ==
    \/ BlockIpAddress
    \/ UnblockIpAddress

EndpointSpec == Init /\ [][EndpointNext]_vars

\* the response engine beside the sessions of the addresses it blocks
ResponseNext ==
    \/ CreateFakeSession
    \/ BlockIp

ResponseSpec == Init /\ [][ResponseNext]_vars

\* the rule-based checks against the baselines of several histories
CheckNext ==
    \/ CalculateBaselineMetrics
    \/ RunSessionChecks

CheckSpec == Init /\ [][CheckNext]_vars

\* the ensemble over the sessions the simulator fabricates
EnsembleNext ==
    \/ LoadOrTrainModels
    \/ CreateFakeSession
    \/ DetectAnomalyOfSession

EnsembleSpec == Init /\ [][EnsembleNext]_vars

\* the task of the periodic analysis over the sessions of the simulator
AnalysisNext ==
    \/ LoadOrTrainModels
    \/ CreateFakeSession
    \/ StartMonitoring
    \/ AnalysisTask
    \/ DetectAnomalyOfSession

AnalysisSpec == Init /\ [][AnalysisNext]_vars

\* the three tasks of the platform from their creation to a stop
TaskNext ==
    \/ StartMonitoring
    \/ Stop
    \/ MonitorTask
    \/ AnalysisTask
    \/ CleanupTask

\* the three tasks of a platform that is left running
LoopNext ==
    \/ StartMonitoring
    \/ MonitorTask
    \/ AnalysisTask
    \/ CleanupTask

LoopSpec == Init /\ [][LoopNext]_vars

\* the event loop runs every task that is ready
TaskFairness ==
    /\ WF_vars(MonitorTask)
    /\ WF_vars(AnalysisTask)
    /\ WF_vars(CleanupTask)

TaskSpec == Init /\ [][TaskNext]_vars /\ TaskFairness

----------------------------------------------------------------------------
(* Properties *)

\* the step is a block, unblock or auto-block request
RequestStep == requests' = requests + 1

\* the step is a run of cleanup_expired_blocks (the clock stands still in it)
CleanupStep == last'.op = "cleanup" /\ now' = now

ActiveRules(rules, ip) ==
    { i \in 1..Len(rules) : rules[i].source_ip = ip /\ rules[i].is_active }

\* C1: after two consecutive successful block_ip calls on one address, the
\* address is blocked, has exactly one active rule, and the reason and the
\* expiry (none when the second call gave no duration) are the second call's
C1_Step ==
    LET ip == last'.ip
        expected == IF last'.duration = None THEN None
                    ELSE now + last'.duration
    IN (/\ last.op = "block" /\ last.success
        /\ RequestStep
        /\ last'.op = "block" /\ last'.success /\ last'.duration # 0
        /\ last'.ip = last.ip)
       => /\ ip \in blocked_ips'
          /\ Cardinality(ActiveRules(firewall_rules', ip)) = 1
          /\ \A i \in ActiveRules(firewall_rules', ip) :
                /\ firewall_rules'[i].description = <<last'.reason>>
                /\ firewall_rules'[i].expires_at = expected
          /\ IF expected = None
             THEN ip \notin DOMAIN temporary_blocks'
             ELSE /\ ip \in DOMAIN temporary_blocks'
                  /\ temporary_blocks'[ip] = expected

C1_ReblockTakesSecondCall == [][C1_Step]_vars

\* C2: after a block_ip or unblock_ip call that returned success, an address
\* is in blocked_ips exactly when the rule table holds an active rule for it
C2_MemoryMatchesRules ==
    (last.op \in {"block", "unblock"} /\ last.success)
    => \A ip \in ExternalIps :
          ip \in blocked_ips <=> ActiveRules(firewall_rules, ip) # {}

\* C3: a sweep at time t removes exactly the blocked addresses whose expiry
\* is at or before t, whatever the order, leaves the other entries and their
\* expiries as they were, and returns the number it removed
C3_Step ==
    LET due == { ip \in blocked_ips :
                    ip \in DOMAIN temporary_blocks /\ temporary_blocks[ip] <= now }
    IN CleanupStep
       => /\ blocked_ips' = blocked_ips \ due
          /\ DOMAIN temporary_blocks' = (DOMAIN temporary_blocks) \ due
          /\ \A ip \in DOMAIN temporary_blocks' :
                temporary_blocks'[ip] = temporary_blocks[ip]
          /\ last'.removed_count = Cardinality(due)

C3_SweepRemovesExactlyTheExpired == [][C3_Step]_vars

\* a sweep took the entry that was due and left the one that expires later
C3_Witness ==
    /\ last.op = "cleanup" /\ last.removed_count = 1
    /\ \E ip \in blocked_ips :
          ip \in DOMAIN temporary_blocks /\ temporary_blocks[ip] > now

\* C4: the sweep removes no entry before its expiry, and, the cleanup task
\* running forever, the set is again and again free of entries whose expiry
\* has passed, so that no such entry stays: it is removed (or a new block of
\* the address gives it a later expiry)
ExpiredEntry(ip) ==
    ip \in DOMAIN temporary_blocks /\ temporary_blocks[ip] <= now

C4_Step ==
    CleanupStep
    => \A ip \in blocked_ips \ blocked_ips' :
          ip \in DOMAIN temporary_blocks /\ temporary_blocks[ip] <= now

C4_ExpiredBlocksAreSwept ==
    /\ [][C4_Step]_vars
    /\ []<>(\A ip \in ExternalIps : ~ExpiredEntry(ip))

\* the sweep has emptied the set, some time after the block was made
C4_Witness ==
    /\ last.op = "cleanup" /\ last.removed_count = 1
    /\ blocked_ips = {} /\ now > 0

\* C5: block_ip on a private, loopback or link-local address or on a string
\* that is no address fails and changes neither blocked_ips, nor
\* temporary_blocks, nor the rule table, nor the audit log
C5_Step ==
    (RequestStep /\ last'.op = "block" /\ last'.ip \in InternalIps \cup InvalidIps)
    => /\ ~last'.success
       /\ UNCHANGED fwvars

C5_InternalBlockRejected == [][C5_Step]_vars

C5_Witness ==
    /\ last.op = "block" /\ ~last.success
    /\ last.ip = <<169, 254, 1, 1>>
    /\ blocked_ips # {}

\* C6: unblock_ip on an address that is not blocked fails, changes nothing
\* and does not invoke the enforcement removal
C6_Step ==
    (RequestStep /\ last'.op = "unblock" /\ last'.ip \notin blocked_ips)
    => /\ ~last'.success
       /\ UNCHANGED fwvars
       /\ last'.removes = 0

C6_UnblockOfUnblockedRejected == [][C6_Step]_vars

C6_Witness ==
    /\ last.op = "unblock" /\ ~last.success
    /\ last.ip \in ExternalIps
    /\ blocked_ips # {} /\ audit_logs # <<>>

\* a successful block_ip(addr, 60) is the last call made, and the step is
\* the call unblock_ip(addr)
C7_RoundTrip ==
    /\ last.op = "block" /\ last.success /\ last.duration = 60
    /\ RequestStep
    /\ last'.op = "unblock" /\ last'.ip = last.ip

\* C7 as stated: block_ip(addr, 60) then unblock_ip(addr) leaves addr neither
\* blocked nor with a pending expiry, and the removal primitive ran once
C7_Step ==
    C7_RoundTrip
    => /\ last'.success
       /\ last'.ip \notin blocked_ips'
       /\ last'.ip \notin DOMAIN temporary_blocks'
       /\ last'.removes = 1

C7_StepIfSupported ==
    C7_RoundTrip
    => /\ last'.success
       /\ last'.ip \notin blocked_ips'
       /\ last'.ip \notin DOMAIN temporary_blocks'
       /\ last'.removes = IF platform \in {"windows", "linux", "darwin"}
                          THEN 1 ELSE 0

C8_DurationFromSeverity ==
    last.op = "auto_block"
    => LET severity == threat_objects[last.threat].severity
       IN /\ severity = "low"      => last.duration = 30
          /\ severity = "medium"   => last.duration = 60
          /\ severity = "high"     => last.duration = 240
          /\ severity = "critical" => last.duration = 1440

C8_Witness ==
    /\ last.op = "auto_block" /\ last.success
    /\ threat_objects[last.threat].severity = "critical"
    /\ last.duration_arg = 15
    /\ temporary_blocks[last.ip] = now + 1440

\* C9: after auto_block_threat_ip, the persisted threat row records the
\* block (action taken, blocked automatically) if the block succeeded, and
\* is as it was logged if the block failed
C9_ThreatRowRecordsBlock ==
    last.op = "auto_block"
    => LET row == threat_logs[last.threat]
       IN IF last.success
          THEN /\ row.action_taken = <<"ip_blocked", last.duration, "min">>
               /\ row.blocked_automatically
          ELSE /\ row.action_taken = <<"logged">>
               /\ ~row.blocked_automatically

\* C10: a persisted threat of severity high that an evaluator wrote for an
\* external address leads to the automatic block of that address
C10_HighThreat(i) ==
    /\ i <= Len(threat_logs)
    /\ threat_logs[i].severity = "high"
    /\ threat_logs[i].detection_method \in {"traffic_analysis", "machine_learning"}
    /\ threat_logs[i].source_ip \in ExternalIps

C10_Responded(i) ==
    /\ last.op = "auto_block" /\ last.threat = i
    /\ threat_logs[i].source_ip \in blocked_ips

C10_HighThreatIsBlocked ==
    \A i \in 1..MaxThreats : C10_HighThreat(i) ~> C10_Responded(i)

\* C11: a block_ip (unblock_ip) call in which the enforcement primitive
\* reports failure, its persistence writes going through, still returns
\* success, adds the address to (removes it from) blocked_ips, leaves an
\* active rule with the call's reason (no active rule) for the address and
\* appends one audit entry
C11_Step ==
    LET ip == last'.ip
    IN (RequestStep /\ last'.warned > 0 /\ db_failures' = db_failures)
       => /\ last'.success
          /\ last'.op = "block" =>
                /\ ip \in blocked_ips'
                /\ ActiveRules(firewall_rules', ip) # {}
                /\ \A i \in ActiveRules(firewall_rules', ip) :
                      firewall_rules'[i].description = <<last'.reason>>
                /\ audit_logs' = Append(audit_logs, [event_type |-> "ip_blocked",
                                                      target |-> ip])
          /\ last'.op = "unblock" =>
                /\ ip \notin blocked_ips'
                /\ ip \notin DOMAIN temporary_blocks'
                /\ ActiveRules(firewall_rules', ip) = {}
                /\ audit_logs' = Append(audit_logs, [event_type |-> "ip_unblocked",
                                                      target |-> ip])

C11_EnforcementFailureKeepsBookkeeping == [][C11_Step]_vars

\* an unblock whose removal failed, after a block: the address is out of the
\* set, its rule is inactive and both audit entries are there
C11_Witness ==
    /\ last.op = "unblock" /\ last.success /\ last.warned = 1
    /\ last.ip \notin blocked_ips
    /\ Len(audit_logs) = 2
    /\ Len(firewall_rules) = 1 /\ ~firewall_rules[1].is_active

\* C12: in every state reached by block_ip, unblock_ip and
\* cleanup_expired_blocks calls, the rule table holds at most one active rule
\* per address (blocked_ips, a set, holds an address once by construction)
C12_OneActiveRulePerAddress ==
    \A ip \in IpInputs : Cardinality(ActiveRules(firewall_rules, ip)) <= 1

\* the address was blocked twice in a row, both calls recorded, and the
\* table has the one rule
C12_Witness ==
    /\ last.op = "block" /\ last.success
    /\ Len(audit_logs) = 2
    /\ \A i \in 1..2 : audit_logs[i] = [event_type |-> "ip_blocked",
                                         target |-> last.ip]
    /\ Len(firewall_rules) = 1
    /\ ActiveRules(firewall_rules, last.ip) = {1}

\* C13: an address whose most recent successful block_ip call gave no
\* duration is not removed by a run of cleanup_expired_blocks (stated for
\* the sweeps that follow that call with no other call in between)
C13_Step ==
    (/\ last.op = "block" /\ last.success /\ last.duration = None
     /\ CleanupStep)
    => last.ip \in blocked_ips'

C13_SweepKeepsPermanentBlocks == [][C13_Step]_vars

\* a poll has just run
PollStep == polls' = polls + 1

\* the rows of the session table that a connection key names
RowsOfKey(table, key) ==
    { i \in DOMAIN table :
        \/ <<table[i].server_ip, table[i].server_port,
             table[i].client_ip, table[i].client_port>> = key
        \/ <<table[i].client_ip, table[i].client_port,
             table[i].server_ip, table[i].server_port>> = key }

C14_Inv ==
    \A i \in DOMAIN vnc_sessions :
        (vnc_sessions[i].end_time # None) <=> (vnc_sessions[i].status # "active")

C14_Step ==
    /\ DOMAIN vnc_sessions \subseteq DOMAIN vnc_sessions'
    /\ \A i \in (DOMAIN vnc_sessions') \ DOMAIN vnc_sessions :
          /\ vnc_sessions'[i].status = "active"
          /\ vnc_sessions'[i].end_time = None
    /\ \A i \in DOMAIN vnc_sessions :
          (\/ vnc_sessions'[i].status # vnc_sessions[i].status
           \/ vnc_sessions'[i].end_time # vnc_sessions[i].end_time)
          => /\ vnc_sessions[i].status = "active"
             /\ vnc_sessions[i].end_time = None
             /\ vnc_sessions'[i].status = "terminated"
             /\ vnc_sessions'[i].end_time # None

\* C14: in every reachable state a persisted session has its end time set
\* exactly when its status is not active; a row that is created is active
\* with no end time, and a row whose status or end time changes was active
\* and gets the status terminated and an end time in the same step.
C14_EndTimeIffNotActive == []C14_Inv /\ [][C14_Step]_vars

\* a session was created and closed, and another one is still active
C14_Witness ==
    \E i, j \in DOMAIN vnc_sessions :
        /\ vnc_sessions[i].status = "terminated"
        /\ vnc_sessions[i].end_time # None
        /\ vnc_sessions[j].status = "active"
        /\ vnc_sessions[j].end_time = None
        /\ i \notin FakeSessions

C15_Step ==
    /\ \A i \in DOMAIN vnc_sessions :
          vnc_sessions[i].status \in { "terminated", "blocked" }
          => /\ i \in DOMAIN vnc_sessions'
             /\ vnc_sessions'[i].status # "active"
    /\ PollStep =>
          \A key \in last_poll' :
            (/\ key \notin DOMAIN active_sessions
             /\ \E i \in RowsOfKey(vnc_sessions, key) :
                    vnc_sessions[i].status = "terminated")
            => /\ key \in DOMAIN active_sessions'
                  => active_sessions'[key].session_id \notin DOMAIN vnc_sessions
               /\ db_failures' = db_failures
                  => /\ key \in DOMAIN active_sessions'
                     /\ LET id == active_sessions'[key].session_id
                        IN /\ id \in RowsOfKey(vnc_sessions', key)
                           /\ vnc_sessions'[id].status = "active"

\* C15: no step of a poll or an evaluation takes a terminated or blocked
\* session back to active; a poll that observes the key of a closed
\* session again never tracks the key under an existing row, and when its
\* writes succeed it creates a row with a new id, active, and tracks the
\* key under it.
C15_ClosedSessionsStayClosed == [][C15_Step]_vars

\* the connection of a closed session was observed again: two rows of one
\* key, the older terminated, the newer active and tracked
C15_Witness ==
    \E key \in DOMAIN active_sessions :
        \E i, j \in RowsOfKey(vnc_sessions, key) :
            /\ i < j
            /\ vnc_sessions[i].status = "terminated"
            /\ vnc_sessions[j].status = "active"
            /\ active_sessions[key].session_id = j

C16_Step ==
    (RequestStep /\ last'.op = "block" /\ last'.success)
    => \A i \in DOMAIN vnc_sessions :
          (/\ vnc_sessions[i].client_ip = last'.ip
           /\ vnc_sessions[i].status = "active")
          => vnc_sessions'[i].status = "blocked"

\* C16: a successful block of an address moves every active session of
\* that client address to the status blocked.
C16_BlockMovesSessionsToBlocked == [][C16_Step]_vars

C17_Step ==
    PollStep =>
      \A key \in last_poll \cap last_poll' :
        (\E i \in RowsOfKey(vnc_sessions, key) :
            vnc_sessions[i].status = "active")
        => /\ RowsOfKey(vnc_sessions', key) = RowsOfKey(vnc_sessions, key)
           /\ key \in DOMAIN active_sessions'
           /\ active_sessions'[key].last_seen = polls'

\* C17: while a connection key stays in the live snapshot the monitor
\* persists one row for it: once a poll has persisted the row of the key,
\* the next poll that sees the key persists nothing for it and only
\* refreshes last_seen.
C17_OneRowPerLiveKey == [][C17_Step]_vars

C18_Step ==
    PollStep =>
      \A key \in (DOMAIN active_sessions) \ last_poll' :
        /\ key \notin DOMAIN active_sessions'
        /\ LET id == active_sessions[key].session_id
           IN id \in DOMAIN vnc_sessions'
              => /\ vnc_sessions'[id].status = "terminated"
                 /\ vnc_sessions'[id].end_time # None

\* C18: after a poll every session that was tracked and whose key is not in
\* the poll's snapshot has left the live map, and its row, if it exists,
\* is terminated with its end time set.
C18_AbsentSessionsAreClosed == [][C18_Step]_vars

\* C19: in every reachable state, after creation and after any number of
\* rule-based evaluations, the risk score of every session is in [0, 100].
C19_RiskScoreInRange ==
    \A i \in DOMAIN vnc_sessions :
        /\ vnc_sessions[i].risk_score >= 0
        /\ vnc_sessions[i].risk_score <= 100

\* a session the monitor created with a score below 100 was evaluated
\* twice, and the sum of its score and its points was cut to 100
C19_Witness ==
    /\ evaluations = 2
    /\ last_eval.session_id \in DOMAIN vnc_sessions
    /\ last_eval.session_id \notin FakeSessions
    /\ last_eval.risk_score = 100
    /\ vnc_sessions[last_eval.session_id].risk_score = 100
    /\ Len(last_eval.risk_factors) = 4

\* the points of the factors an evaluation found
C20_Points(risk_factors, factor, points) ==
    IF \E k \in DOMAIN risk_factors : risk_factors[k] = factor
    THEN points ELSE 0

C20_Step ==
    (evaluations' = evaluations + 1 /\ last_eval'.risk_score # None)
    => LET id == last_eval'.session_id
           f == last_eval'.risk_factors
           ip == vnc_sessions[id].client_ip
           external == ~VNCMonitor_is_internal_ip(ip)
           suspicious == TrafficAnalyzer_is_suspicious_ip(ip)
           sum == vnc_sessions[id].risk_score
                  + C20_Points(f, "excessive_data_transfer", 30)
                  + C20_Points(f, "unusual_duration", 10)
                  + C20_Points(f, "screenshot_abuse", 25)
                  + C20_Points(f, "clipboard_abuse", 20)
                  + (IF external THEN 15 ELSE 0)
                  + (IF suspicious THEN 40 ELSE 0)
       IN vnc_sessions'[id].risk_score = Min(100, sum)

\* C20: one rule-based evaluation sets the risk score of the session to
\* the smaller of 100 and its current score plus 30, 10, 25 and 20 for the
\* transfer, duration, screenshot and clipboard checks that fired, plus 15
\* when the client address is external, that is outside the private ranges
\* 10/8, 172.16/12, 192.168/16 and the loopback range 127/8, plus 40 when
\* it is on the suspicious list.
C20_EvaluationAddsFixedPoints == [][C20_Step]_vars

\* an evaluation has just returned a result with a risk score
EvaluationStep == evaluations' = evaluations + 1 /\ last_eval'.risk_score # None

C21_Step ==
    EvaluationStep
    => LET score == last_eval'.risk_score
           ip == vnc_sessions[last_eval'.session_id].client_ip
       IN IF score > 70
          THEN \/ /\ db_failures' = db_failures + 1
                  /\ threat_logs' = threat_logs
               \/ /\ db_failures' = db_failures
                  /\ Len(threat_logs') = Len(threat_logs) + 1
                  /\ SubSeq(threat_logs', 1, Len(threat_logs)) = threat_logs
                  /\ LET row == threat_logs'[Len(threat_logs')]
                     IN /\ row.detection_method = "traffic_analysis"
                        /\ row.source_ip = ip
                        /\ row.severity = IF score > 85 THEN "high" ELSE "medium"
                        /\ row.confidence = score * 10
                        /\ row.confidence >= 0 /\ row.confidence <= 1000
          ELSE /\ threat_logs' = threat_logs
               /\ db_failures' = db_failures

\* C21: a rule-based evaluation that returns a risk score writes a threat
\* record exactly when the score is above 70 (the record is in the table
\* unless that write fails, which is counted and leaves the table as it
\* was); the record is high when the score is above 85 and medium
\* otherwise, and its confidence is score/100 (in thousandths, ten times
\* the score), between 0 and 1.
C21_ThreatIffScoreAbove70 == [][C21_Step]_vars

\* an evaluation returned exactly 85 and its record is medium
C21_Witness ==
    /\ last_eval.risk_score = 85
    /\ Len(threat_logs) = 1
    /\ threat_logs[1].severity = "medium"
    /\ threat_logs[1].confidence = 850
    /\ threat_logs[1].detection_method = "traffic_analysis"

\* the checks have just been run on a session
CheckStep == last_check' # last_check

C22_Step ==
    LET transferred == last_check'.session.data_transferred
        avg == baseline_metrics.avg_data_transfer_mb
        std == baseline_metrics.std_data_transfer_mb
        fired == last_check'.data_anomaly # "None"
    IN (CheckStep /\ std > 0)
       => /\ fired <=> transferred - avg > 3 * std
          /\ fired => last_check'.data_anomaly =
                         IF transferred - avg > 5 * std THEN "high" ELSE "medium"
          /\ (avg = 10 /\ std = 5)
             => /\ transferred = 26 => last_check'.data_anomaly = "medium"
                /\ transferred = 36 => last_check'.data_anomaly = "high"
                /\ transferred \in {24, 25} => last_check'.data_anomaly = "None"

\* C22: with a positive deviation in the baseline, the data-transfer check
\* returns an anomaly exactly when (transferred - mean) / stddev > 3, high
\* when the quotient is above 5 and medium otherwise; with mean 10 and
\* stddev 5, 26 MB is medium, 36 MB is high, 24 MB and 25 MB are nothing.
C22_DataTransferCheck == [][C22_Step]_vars

\* the boundary: 25 MB against mean 10 and stddev 5 is three deviations
C22_Witness ==
    /\ last_check.session.data_transferred = 25
    /\ last_check.utcnow > 0
    /\ last_check.data_anomaly = "None"
    /\ baseline_metrics.avg_data_transfer_mb = 10
    /\ baseline_metrics.std_data_transfer_mb = 5

C23_Step ==
    LET session == last_check'.session
        elapsed_minutes == IF session.end_time # None
                           THEN session.end_time - session.start_time
                           ELSE last_check'.utcnow - session.start_time
        count == session.screenshots_count
        fired == last_check'.screenshot_anomaly # "None"
    IN (CheckStep /\ ~last_check'.error /\ elapsed_minutes > 0)
       => /\ fired <=> count > 10 * 2 * elapsed_minutes
          /\ fired => last_check'.screenshot_anomaly =
                         IF count > 20 * 2 * elapsed_minutes
                         THEN "high" ELSE "medium"

C24_Step ==
    LET session == last_check'.session
        duration == session.end_time - session.start_time
        avg == baseline_metrics.avg_session_duration_hours
        std == baseline_metrics.std_session_duration_hours
        fired == last_check'.duration_anomaly # "None"
    IN CheckStep
       => /\ session.end_time = None => ~fired
          /\ (/\ session.end_time # None /\ std > 0
              /\ last_check'.data_anomaly # "ZeroDivisionError")
             => /\ fired <=> Abs(duration - avg) > 2 * std
                /\ fired => last_check'.duration_anomaly = "medium"

\* C24: the duration check returns nothing for a session with no end time;
\* for a closed session, with a positive deviation in the baseline, it
\* returns an anomaly exactly when |duration - mean| / stddev > 2, and the
\* anomaly is always medium.
C24_DurationCheck == [][C24_Step]_vars

\* a session that lasted one minute against a mean of 100 minutes and a
\* deviation of 10: unusual for being short
C24_Witness ==
    /\ last_check.session.end_time = 1
    /\ last_check.duration_anomaly = "medium"
    /\ baseline_metrics.avg_session_duration_hours = 100
    /\ baseline_metrics.std_session_duration_hours = 10

\* a detection that ran the two models, as opposed to an error result
Detected == last_detection.session_id # 0 /\ last_detection.error = ""

\* C25: the confidence of the ensemble lies between 0 and 1 for every
\* decision score of the unsupervised model and every probability vector
\* of the classifier, with the classifier and without it.
C25_ConfidenceWithinUnitInterval ==
    Detected => /\ last_detection.confidence >= 0
                /\ last_detection.confidence <= 1000

\* a decision score of 1.5 without the classifier: the normalised score
\* -0.25 is clamped to 0
C25_Witness ==
    /\ Detected
    /\ last_detection.isolation_forest = <<1, 1500>>
    /\ last_detection.random_forest = <<None, << >>>>
    /\ last_detection.confidence = 0

\* C26: a session is flagged exactly when the outlier flag is set or the
\* label of the classifier is 1, an absent classifier counting as not
\* anomalous; the confidence is the mean of the two models' confidences
\* with the classifier and the unsupervised confidence alone without it.
C26_VerdictAndMeanConfidence ==
    LET outlier == last_detection.isolation_forest[1] = -1
        score == last_detection.isolation_forest[2]
        label == last_detection.random_forest[1]
        probability == last_detection.random_forest[2]
        unsupervised == IF Abs(score) >= 1000 THEN 0
                        ELSE (1000 - Abs(score)) \div 2
    IN Detected
       => /\ last_detection.is_anomaly
             <=> (outlier \/ (label # None /\ label = 1))
          /\ label = None => last_detection.confidence = unsupervised
          /\ label # None
             => last_detection.confidence =
                  (unsupervised + MaxOf(probability)) \div 2

\* an inlier of score 0 that the classifier labels anomalous with
\* probability 0.6: flagged, confidence (0.5 + 0.6) / 2
C26_Witness ==
    /\ Detected
    /\ last_detection.isolation_forest = <<1, 0>>
    /\ last_detection.random_forest = <<1, <<400, 600>>>>
    /\ last_detection.is_anomaly
    /\ last_detection.confidence = 550

\* model outputs over a grid: every decision score from -1.2 to 1.2 in
\* thousandths, the classifier absent or giving a probability in tenths
ScoreGrid == -1200..1200

ProbabilityGrid ==
    { << >> } \cup { <<1000 - 100 * k, 100 * k>> : k \in 0..10 }

\* a step of detect_anomaly writes one ML row exactly when the result is
\* flagged with a confidence above 0.7, high above 0.9 and medium otherwise
C27_Step ==
    LET result == last_detection'
        due == /\ result.error = ""
               /\ result.is_anomaly
               /\ result.confidence > 700
        written == Len(threat_logs') = Len(threat_logs) + 1
        failed == threat_logs' = threat_logs
                  /\ db_failures' = db_failures + 1
        row == threat_logs'[Len(threat_logs')]
    IN (last_detection'.calls = last_detection.calls + 1)
       => /\ ~due => threat_logs' = threat_logs
          /\ due => written \/ failed
          /\ (due /\ written)
             => /\ row.detection_method = "machine_learning"
                /\ row.source_ip =
                     vnc_sessions[result.session_id].client_ip
                /\ row.confidence = result.confidence
                /\ row.severity =
                     IF result.confidence > 900 THEN "high" ELSE "medium"

\* some outputs of the two models give a flagged result whose record is
\* high, and some give one whose record is medium
C27_BothSeveritiesOccur ==
    \A severity \in { "high", "medium" } :
        \E score \in ScoreGrid, probability \in ProbabilityGrid :
            LET rf_prediction == IF probability = << >> THEN None
                                 ELSE random_forest_predict(probability)
                confidence == _calculate_confidence(score, probability)
            IN /\ is_anomaly(isolation_forest_predict(score), rf_prediction)
               /\ confidence > 700
               /\ _log_ml_threat([client_ip |-> <<127, 0, 0, 1>>],
                                 [confidence |-> confidence]).severity
                  = severity

\* a step of detect_anomaly on a stored session, seen with the outputs
\* that the two models could have given for it
C27_ClaimStep ==
    /\ C27_Step
    /\ (last_detection'.calls = last_detection.calls + 1
        /\ last_detection'.error = "")
       => C27_BothSeveritiesOccur

\* C27: detect_anomaly persists an ML record exactly when the session is
\* flagged and the confidence is above 0.7; the record is high when the
\* confidence is above 0.9 and medium otherwise, and both severities
\* occur for suitable model outputs.
C27_RecordAndBothSeverities == [][C27_ClaimStep]_vars

\* the part of C27 that the detector keeps: when a record is written and
\* how its severity follows from the confidence
C27_RecordExactlyWhenFlagged == [][C27_Step]_vars

\* a step of the periodic analysis that ran its two analyses
CycleStep == last_cycle'.cycles = last_cycle.cycles + 1

\* the rows that a step added to the threat table
NewThreats == SubSeq(threat_logs', Len(threat_logs) + 1, Len(threat_logs'))

C28_Step ==
    ~is_trained
    => /\ (last_detection'.calls = last_detection.calls + 1)
          => /\ last_detection'.error = "Models not trained"
             /\ UNCHANGED <<vnc_sessions, threat_logs, db_failures>>
       /\ CycleStep
          => /\ last_cycle'.ml_error = "Models not trained"
             /\ last_cycle'.ml_results = << >>
             /\ \A k \in DOMAIN NewThreats :
                   NewThreats[k].detection_method = "traffic_analysis"
             /\ Len(threat_logs') >= Len(threat_logs)
             /\ Len(last_cycle'.rule_results) = Len(vnc_sessions)
             /\ \A i \in DOMAIN vnc_sessions :
                   LET result == last_cycle'.rule_results[i]
                   IN /\ result.session_id = i
                      /\ ~result.error
                         => /\ result.risk_score
                                = _calculate_risk_score(vnc_sessions[i],
                                                        result.risk_factors)
                            /\ vnc_sessions'[i].risk_score
                                = result.risk_score
             /\ tasks'["analysis"] = "sleeping"

\* C28: while the models are not trained, detect_anomaly and the ML
\* analyze_recent_traffic return the error "Models not trained" and write
\* no session and no threat; the same iteration of the periodic analysis
\* still runs the rule-based analysis on every recent session.
C28_UntrainedSkipsOnlyMl == [][C28_Step]_vars

\* detect_anomaly refused, and an iteration with untrained models whose
\* rule-based analysis scored a session and logged it as a threat
C28_Witness ==
    /\ ~is_trained
    /\ last_cycle.cycles = 1
    /\ last_detection.error = "Models not trained"
    /\ last_cycle.ml_error = "Models not trained"
    /\ Len(last_cycle.rule_results) = 1
    /\ last_cycle.rule_results[1].risk_score = vnc_sessions[1].risk_score
    /\ Len(threat_logs) = 1
    /\ threat_logs[1].detection_method = "traffic_analysis"

\* the sessions whose evaluation ended in an error in the last iteration
ErrorResults(results) == { i \in DOMAIN results : results[i].error }

\* the rows that the rule-based analysis added in a step
NewRuleThreats ==
    { k \in DOMAIN NewThreats :
        NewThreats[k].detection_method = "traffic_analysis" }

\* the sessions of the last sweep whose score called for a threat record
DueResults(results) ==
    { i \in DOMAIN results :
        ~results[i].error /\ results[i].risk_score > 70 }

\* what a sweep does whichever write fails: an error result leaves the
\* session's row as it was, every other session is scored, and the task
\* stays in its loop
C30_Sweep ==
    LET results == last_cycle'.rule_results
        errors == ErrorResults(results)
    IN /\ Len(results) = Len(vnc_sessions)
       /\ \A i \in DOMAIN vnc_sessions :
             /\ results[i].session_id = i
             /\ i \in errors
                => /\ vnc_sessions'[i] = vnc_sessions[i]
                   /\ results[i].risk_score = None
             /\ i \notin errors
                => /\ results[i].risk_score
                       = _calculate_risk_score(vnc_sessions[i],
                                               results[i].risk_factors)
                   /\ vnc_sessions'[i].risk_score = results[i].risk_score
       /\ tasks'["analysis"] = "sleeping"
       /\ running'

C30_OriginalStep ==
    CycleStep
    => /\ C30_Sweep
       /\ Cardinality(ErrorResults(last_cycle'.rule_results))
          = db_failures' - db_failures

\* C30 as stated: when a persistence write fails while one session is
\* being evaluated in a periodic sweep, the failure is rolled back and
\* reported as an error result for that session only; the remaining
\* sessions of the sweep are still evaluated, the task does not terminate
\* and runs its next iteration.
C30_EveryFailedWriteIsAnErrorResult == [][C30_OriginalStep]_vars

C30_Step ==
    LET results == last_cycle'.rule_results
        errors == ErrorResults(results)
        due == DueResults(results)
        failures == db_failures' - db_failures
    IN CycleStep
       => /\ C30_Sweep
          /\ Cardinality(errors) <= failures
          /\ Cardinality(NewRuleThreats) <= Cardinality(due)
          /\ Cardinality(due) - Cardinality(NewRuleThreats)
             <= failures - Cardinality(errors)

\* C30, amended: when the commit of a session's score fails in the sweep
\* of a periodic analysis, the session keeps the row it had and its result
\* is an error, for that session only; when the commit of a threat record
\* fails, the record is dropped and the session's result stays a normal
\* one.  Either way every other session of the sweep is evaluated and
\* scored, and the task stays in its loop, asleep until its next
\* iteration.
C30_FailedWriteSkipsOneSession == [][C30_Step]_vars

\* a sweep over two sessions in which the commit of the first failed and
\* the second was scored
C30_Witness ==
    /\ last_cycle.cycles = 1
    /\ Len(last_cycle.rule_results) = 2
    /\ last_cycle.rule_results[1].error
    /\ ~last_cycle.rule_results[2].error
    /\ vnc_sessions[2].risk_score = last_cycle.rule_results[2].risk_score
    /\ db_failures = 1
    /\ tasks["analysis"] = "sleeping"
    /\ running

\* stop() has been called on a platform whose tasks were created
Stopped == tasks # [t \in TaskNames |-> "none"] /\ ~running

\* every task has left its loop
AllTasksDone == \A t \in TaskNames : tasks[t] = "done"

\* once stopped, a task that takes a step leaves its loop: there is no
\* new poll of the connections and no new analysis
C29_Step ==
    Stopped
    => /\ polls' = polls
       /\ last_cycle'.cycles = last_cycle.cycles
       /\ \A t \in TaskNames : tasks'[t] # tasks[t] => tasks'[t] = "done"

\* C29: once stop() has been called, each periodic task (connection poll,
\* re-analysis, cleanup) starts no new iteration and eventually terminates,
\* whenever the stop arrives, including before a created task has run its
\* first step.
C29_StopEndsEveryTask ==
    /\ [][C29_Step]_vars
    /\ (Stopped ~> AllTasksDone)


----------------------------------------------------------------------------
(* The expiry map and the block set                                        *)

\* get_firewall_statistics: the blocks that carry no expiry
permanent_blocks ==
    Cardinality(blocked_ips) - Cardinality(DOMAIN temporary_blocks)

\* C36: in every state reached by block_ip, unblock_ip and
\* cleanup_expired_blocks calls, each address of temporary_blocks is in
\* blocked_ips, so that the permanent count the statistics report (blocked
\* minus temporary) is never negative
C36_ExpiryEntriesAreBlocked ==
    /\ DOMAIN temporary_blocks \subseteq blocked_ips
    /\ permanent_blocks >= 0

\* a sweep has just removed a block that fell due and left a temporary block
\* of another address, which is the only block left
C36_Witness ==
    /\ last.op = "cleanup" /\ last.removed_count = 1
    /\ Cardinality(blocked_ips) = 1
    /\ DOMAIN temporary_blocks = blocked_ips
    /\ permanent_blocks = 0

\* C33: a successful block_ip call given a duration d >= 0 on a valid
\* external address records the expiry (call time + d minutes) both in
\* temporary_blocks and in the persisted rule of the address (stated for the
\* calls whose persistence writes all succeeded)
C33_Step ==
    LET ip == last'.ip
        d == last'.duration
    IN (/\ RequestStep /\ last'.op = "block" /\ last'.success
        /\ d # None /\ d >= 0
        /\ db_failures' = db_failures)
       => /\ ip \in DOMAIN temporary_blocks'
          /\ temporary_blocks'[ip] = now + d
          /\ ActiveRules(firewall_rules', ip) # {}
          /\ \A i \in ActiveRules(firewall_rules', ip) :
                firewall_rules'[i].expires_at = now + d

C33_DurationGivesExpiry == [][C33_Step]_vars


\* a step of detect_anomaly that ran the models: the unsupervised confidence
\* is at most 0.5, the result's confidence at most 0.75 with the classifier
\* and at most 0.5 without it, no row is written without the classifier and
\* the ML rows of the table are all medium
C37_Step ==
    LET result == last_detection'
        score == result.isolation_forest[2]
        label == result.random_forest[1]
    IN (result.calls = last_detection.calls + 1 /\ result.error = "")
       => /\ _calculate_confidence(score, << >>) <= 500
          /\ label # None => result.confidence <= 750
          /\ label = None => /\ result.confidence <= 500
                             /\ threat_logs' = threat_logs
          /\ \A i \in DOMAIN threat_logs' :
                threat_logs'[i].detection_method = "machine_learning"
                => /\ threat_logs'[i].severity = "medium"
                   /\ threat_logs'[i].confidence <= 750

\* C37: the unsupervised confidence never exceeds 0.5, so the confidence of
\* the ensemble never exceeds 0.75 with both models and 0.5 with the
\* unsupervised model alone; every persisted ML threat record is therefore
\* medium, and none is written while the classifier is unavailable.
C37_ConfidenceCapsAndMediumRecords == [][C37_Step]_vars

\* the largest confidence there is, 0.75: an inlier of score 0 that the
\* classifier labels anomalous with probability 1, persisted as medium
C37_Witness ==
    /\ Detected
    /\ last_detection.isolation_forest = <<1, 0>>
    /\ last_detection.random_forest = <<1, <<0, 1000>>>>
    /\ last_detection.confidence = 750
    /\ Len(threat_logs) = 1
    /\ threat_logs[1].detection_method = "machine_learning"
    /\ threat_logs[1].severity = "medium"


\* the mean m and the sample deviation s of the samples xs, by what defines
\* them: n * m is the sum and (n - 1) * s * s the sum of squared deviations
IsSampleMean(m, xs) == m * Len(xs) = SumSeq(xs, 1)

IsSampleDeviation(s, m, xs) ==
    s >= 0 /\ s * s * (Len(xs) - 1) = SumSquares(xs, m, 1)

\* C32: the baseline computed of a history with no sessions is the fixed
\* defaults (10.0 MB, 5.0 MB, 1.0 h, 0.5 h); a metric with fewer than 2
\* samples gets the fallback deviation (5.0 MB, 0.5 h); a metric with 2 or
\* more samples gets the mean and the sample deviation of its samples
C32_BaselineOfHistory ==
    LET transfers == baseline_history.data_transfers
        durations == baseline_history.session_durations
        b == baseline_metrics
    IN /\ baseline_history = NoHistory => b = DefaultBaseline
       /\ Len(transfers) < 2 => b.std_data_transfer_mb = 5
       /\ Len(durations) < 2 => b.std_session_duration_hours = 30
       /\ Len(transfers) >= 2
          => /\ IsSampleMean(b.avg_data_transfer_mb, transfers)
             /\ IsSampleDeviation(b.std_data_transfer_mb,
                                  b.avg_data_transfer_mb, transfers)
       /\ Len(durations) >= 2
          => /\ IsSampleMean(b.avg_session_duration_hours, durations)
             /\ IsSampleDeviation(b.std_session_duration_hours,
                                  b.avg_session_duration_hours, durations)

\* one volume and three durations: the volume's deviation is the fallback,
\* the durations' the sample deviation 10 around their mean 100
C32_Witness ==
    /\ baseline_history.data_transfers = <<12>>
    /\ baseline_history.session_durations = <<90, 100, 110>>
    /\ baseline_metrics.avg_data_transfer_mb = 12
    /\ baseline_metrics.std_data_transfer_mb = 5
    /\ baseline_metrics.avg_session_duration_hours = 100
    /\ baseline_metrics.std_session_duration_hours = 10
    /\ last_check # NoCheck

\* C39: for every history the baseline can be computed from, 2 or more
\* equal samples included, the deviations that the data-transfer and the
\* duration checks divide by are positive, and no evaluation of a session
\* fails with a division by zero
C39_DeviationsArePositive ==
    /\ baseline_metrics.std_data_transfer_mb > 0
    /\ baseline_metrics.std_session_duration_hours > 0
    /\ ~last_check.error


\* the evaluator's view of a session that gains the external-address points
\* and no others
ExternalOnly(session) ==
    /\ ~TrafficAnalyzer_is_internal_ip(session.client_ip)
    /\ ~TrafficAnalyzer_is_suspicious_ip(session.client_ip)

\* no step lowers a stored score; an evaluation that stored the score of an
\* external session with no triggered check added 15 to the score it found
\* (up to 100), and one that stored a score above 70 wrote a record of the
\* session's address unless the write of the record failed
C38_Step ==
    LET id == last_eval'.session_id
        written ==
            /\ Len(threat_logs') = Len(threat_logs) + 1
            /\ threat_logs'[Len(threat_logs')].source_ip =
                 vnc_sessions[id].client_ip
            /\ threat_logs'[Len(threat_logs')].detection_method =
                 "traffic_analysis"
    IN /\ \A i \in DOMAIN vnc_sessions :
            /\ i \in DOMAIN vnc_sessions'
            /\ vnc_sessions'[i].risk_score >= vnc_sessions[i].risk_score
       /\ (polls' = polls /\ last_eval' # last_eval
           /\ last_eval'.risk_score # None)
          => /\ vnc_sessions'[id].risk_score = last_eval'.risk_score
             /\ (ExternalOnly(vnc_sessions[id])
                 /\ last_eval'.risk_factors = << >>)
                => last_eval'.risk_score =
                     Min(vnc_sessions[id].risk_score + 15, 100)
             /\ last_eval'.risk_score > 70
                => written \/ db_failures' = db_failures + 1

\* the stored session is past 70 and its address is on record
PastThreshold(i) ==
    /\ i \in DOMAIN vnc_sessions
    /\ vnc_sessions[i].risk_score > 70
    /\ OnRecord(vnc_sessions[i].client_ip)

\* C38: the rule-based re-evaluation never lowers a stored risk score; each
\* evaluation starts from the score the one before stored, so a session of
\* an external address with no triggered check gains 15 points per
\* evaluation, passes 70 after finitely many evaluations and then yields a
\* threat record
C38_ScoreAccumulatesToARecord ==
    /\ [][C38_Step]_vars
    /\ \A i \in FirstSessionIds :
          (i \in DOMAIN vnc_sessions /\ ExternalOnly(vnc_sessions[i]))
          ~> PastThreshold(i)

\* an external session whose last evaluation, with no triggered check, took
\* its score from 70 to 85 and wrote the record of its address
C38_Witness ==
    \E i \in DOMAIN vnc_sessions :
        /\ ExternalOnly(vnc_sessions[i])
        /\ vnc_sessions[i].risk_score = 85
        /\ last_eval = [ session_id |-> i, risk_factors |-> << >>,
                         risk_score |-> 85 ]
        /\ OnRecord(vnc_sessions[i].client_ip)


\* the sessions of the last ML sweep that were flagged above 0.7
DueMlResults(results) ==
    { i \in DOMAIN results :
        results[i].is_anomaly /\ results[i].confidence > 700 }

\* the rows of one evaluator, for one address, among the rows a step added
NewThreatsOf(method, ip) ==
    { k \in DOMAIN NewThreats :
        /\ NewThreats[k].detection_method = method
        /\ NewThreats[k].source_ip = ip }

\* the sessions of a set that belong to one address
SessionsOf(ids, ip) == { i \in ids : vnc_sessions[i].client_ip = ip }

\* every step keeps the rows the table had; a periodic analysis in which no
\* write failed adds, for each address, one rule-based row per session of
\* the address scored above 70 and one ML row per session of the address
\* flagged above 0.7, whatever rows the address had before
C34_Step ==
    /\ Len(threat_logs') >= Len(threat_logs)
    /\ SubSeq(threat_logs', 1, Len(threat_logs)) = threat_logs
    /\ (CycleStep /\ db_failures' = db_failures)
       => \A ip \in { vnc_sessions[i].client_ip : i \in DOMAIN vnc_sessions } :
             /\ Cardinality(NewThreatsOf("traffic_analysis", ip))
                = Cardinality(SessionsOf(
                      DueResults(last_cycle'.rule_results), ip))
             /\ Cardinality(NewThreatsOf("machine_learning", ip))
                = Cardinality(SessionsOf(
                      DueMlResults(last_cycle'.ml_results), ip))

\* C34: the rule-based and the ML evaluators never deduplicate: each
\* periodic re-analysis in which a session still has a risk score above 70
\* (or is still flagged with a confidence above 0.7) persists one more
\* threat record for it, and a record written by one evaluator is never
\* suppressed or overwritten by the other's
C34_NoDeduplication == [][C34_Step]_vars

\* two periodic analyses of the one stored session: each added an ML record
\* and a rule-based record of the same address
C34_Witness ==
    /\ last_cycle.cycles = 2
    /\ Len(vnc_sessions) = 1
    /\ Len(threat_logs) = 4
    /\ \A k \in 1..4 : threat_logs[k].source_ip = vnc_sessions[1].client_ip
    /\ threat_logs[1].detection_method = "machine_learning"
    /\ threat_logs[2].detection_method = "traffic_analysis"
    /\ threat_logs[3].detection_method = "machine_learning"
    /\ threat_logs[4].detection_method = "traffic_analysis"


\* the task is in its loop, about to start an iteration
InLoop(t) == tasks[t] \in { "created", "sleeping" }

\* a step in which an exception was raised (a write of its iteration
\* failed) is the step of one task, which is asleep after it; the other
\* tasks are where they were and the platform is still running
C35_Step ==
    db_failures' > db_failures
    => /\ \E t \in TaskNames :
            /\ InLoop(t)
            /\ tasks' = [tasks EXCEPT ![t] = "sleeping"]
       /\ running /\ running'

\* after any number of such exceptions every task is in its loop, where
\* its next step is another iteration
C35_StillLooping ==
    (running /\ db_failures > 0) => \A t \in TaskNames : InLoop(t)

C40_NotificationOnlyOnSuccess ==
    /\ (last.broadcast = "ip_blocked" \/ (last.op = "block"
                                          /\ last.status = "success"))
       => last.success /\ last.ip \in blocked_ips
    /\ (last.broadcast = "ip_unblocked" \/ (last.op = "unblock"
                                            /\ last.status = "success"))
       => last.success


\* the entries that a step added to the audit log
NewAudit == SubSeq(audit_logs', Len(audit_logs) + 1, Len(audit_logs'))

\* the rows of the rule table that are about the address
RulesOf(rules, ip) == SelectSeq(rules, LAMBDA rule : rule.source_ip = ip)

\* the step left none of the bookkeeping of the address changed
NothingApplied(ip) ==
    /\ (ip \in blocked_ips') <=> (ip \in blocked_ips)
    /\ (ip \in DOMAIN temporary_blocks') <=> (ip \in DOMAIN temporary_blocks)
    /\ ip \in DOMAIN temporary_blocks
       => temporary_blocks'[ip] = temporary_blocks[ip]
    /\ RulesOf(firewall_rules', ip) = RulesOf(firewall_rules, ip)
    /\ \A k \in DOMAIN NewAudit : NewAudit[k].target # ip

\* the step applied the whole bookkeeping of a block of the address: the
\* set, an active rule and the audit entry
BlockApplied(ip) ==
    /\ ip \in blocked_ips'
    /\ ActiveRules(firewall_rules', ip) # {}
    /\ \E k \in DOMAIN NewAudit :
          NewAudit[k] = [event_type |-> "ip_blocked", target |-> ip]

\* the step applied the whole bookkeeping of an unblock of the address
UnblockApplied(ip) ==
    /\ ip \notin blocked_ips'
    /\ ip \notin DOMAIN temporary_blocks'
    /\ ActiveRules(firewall_rules', ip) = {}
    /\ \E k \in DOMAIN NewAudit :
          NewAudit[k] = [event_type |-> "ip_unblocked", target |-> ip]

C31_Step ==
    (RequestStep \/ CleanupStep)
    => \A ip \in IpInputs :
          NothingApplied(ip) \/ BlockApplied(ip) \/ UnblockApplied(ip)

\* C31: block_ip, unblock_ip and cleanup_expired_blocks are atomic with
\* respect to each other per address: under every interleaving of the
\* periodic cleanup with manual block and unblock requests on an address,
\* each operation runs as one step, with no intermediate state for another
\* to see, and applies its bookkeeping of the address (the set, the expiry,
\* the rule and the audit entry) wholly or not at all
C31_AtomicPerAddress == [][C31_Step]_vars
====
